---- MODULE Spec2Model ----
(***************************************************************************)
(* VoiceBoard: the global hotkey recognition engine (hotkeys.py), the      *)
(* realtime transcription session (transcriber.py) with its text           *)
(* reconciler, and the application glue that injects text (app.py).        *)
(*                                                                         *)
(* The specifications share the variables:                                 *)
(*   SpecKeys    the evdev recognition step driven by key events           *)
(*   SpecTok     token batches -> correction instructions -> injection     *)
(*   SpecSess    start()/stop()/send_audio() against the background thread *)
(*   SpecConn    the session against any server frame and any closure;     *)
(*               SpecConnFair adds the scheduler's fairness                *)
(*   SpecParse   shortcut strings, the capture field and the two parsers   *)
(*   SpecNorm    modifier keys of either side, in both listeners           *)
(*   SpecListen  the evdev listener's thread, pipe and device handles      *)
(*   SpecTaps    one key pressed over and over against a double-tap toggle *)
(*   SpecTwin    the evdev and the pynput step fed with the same events    *)
(*   SpecAudio   the recorder: streams opened, blocks resampled and sent   *)
(*   SpecType    text deliveries, the typing queue and its worker          *)
(*   SpecSave    the listener thread dispatching keys while the            *)
(*               application saves, stops and reconfigures                 *)
(*   SpecPhys    the listener of SpecNorm fed by a physical keyboard       *)
(*   SpecApp     recordings started and stopped by the application, the    *)
(*               grace timer and the capture thread beside the session     *)
(*   SpecRestart a streaming session stopped and started again             *)
(***************************************************************************)
EXTENDS Integers, Sequences, FiniteSets, TLC

VARIABLES
    \* ---- hotkeys.py: _EvdevHotkeyListener ----
    toggle_cfg,            \* self._toggle_cfg  (_ShortcutConfig)
    ptt_cfg,               \* self._ptt_cfg
    current_keys,          \* self._current_keys
    toggle_seq,            \* self._toggle_seq  (_SeqState)
    ptt_seq,               \* self._ptt_seq
    toggle_combo_active,   \* self._toggle_combo_active
    ptt_combo_active,      \* self._ptt_combo_active
    now,                   \* time.monotonic(), in ticks of 0.2 s
    calls,                 \* the callbacks raised by the last step, in order
    hist,                  \* history of the event stream (see HistDown/HistUp)
    backend,               \* HotkeyManager._backend: which listener class
    toggle_shortcut,       \* config.toggle_shortcut, a string (see Pieces)
    ptt_shortcut,          \* config.ptt_shortcut
    captured,              \* what the capture field last committed, if the
                           \*   string of its binding still comes from it
    hk_thread,             \* _EvdevHotkeyListener._thread: listener thread i, or None
    stop_event,            \* self._stop_event is set
    stop_pipe,             \* self._stop_pipe_r / _stop_pipe_w: pipe i, or None
    pipe,                  \* per pipe i: its two ends, and a byte written to it
    lpc,                   \* per listener thread i: where _run stands, and the
                           \*   pipe end it put among the descriptors to select
    devices,               \* per listener thread i: its local list `devices`
    handle,                \* per listener thread i and device: the InputDevice
    dev_state,             \* per device: can be opened, refuses, or is unplugged
    hk,                    \* the calling thread inside the listener's start() / stop()
    \* ---- transcriber.py: RealtimeTranscriber ----
    api_key,               \* self._api_key
    running,               \* self._running
    ws,                    \* self._ws: the connection of session i, or None
    loop,                  \* self._loop: the event loop of session i, or None
    thread,                \* self._thread: the thread of session i, or None
    nonfinal_typed_text,   \* self._nonfinal_typed_text
    tpc,                   \* per session i: where its thread (_run_loop) stands
    lst,                   \* per session i: state of its event loop object
    wsst,                  \* per session i: state of its connection
    lq,                    \* per session i: callbacks queued on its loop by
                           \*   run_coroutine_threadsafe, not yet run
    wire,                  \* per session i: the client frames sent on its connection
    gui,                   \* the calling (GUI) thread inside start() / stop()
    aud,                   \* the audio callback thread inside send_audio()
    \* ---- app.py: VoiceBoardApp ----
    config_key,            \* self.config.soniox_api_key
    recording,             \* self._recording
    recorder_on,           \* self.recorder is capturing
    window_active,         \* self.window.isActiveWindow()
    typing_mode,           \* self.config.typing_mode
    text_q,                \* transcription_text signals emitted, not yet delivered
    \* ---- bookkeeping of what was emitted and injected ----
    tok,                   \* see TokInit
    sink,                  \* see SinkInit
    \* ---- hotkeys.py: _PynputHotkeyListener fed with the same events ----
    py,                    \* its held set, armed states, latches and callbacks
    taps,                  \* presses of a double-tap key in a row, and fires
    \* ---- audio.py: AudioRecorder ----
    rec,                   \* see RecInit
    \* ---- typer.py: _TypingWorker, and what is on its way to it ----
    typ,                   \* see TypInit
    \* ---- what the model keeps beside the program's own state ----
    phys,                  \* the physical keys that are down
    timers                 \* QTimer.singleShot(1500, _finish_stop) not yet fired

keyVars == <<toggle_cfg, ptt_cfg, current_keys, toggle_seq, ptt_seq,
             toggle_combo_active, ptt_combo_active, now, hist,
             backend, toggle_shortcut, ptt_shortcut, captured,
             hk_thread, stop_event, stop_pipe, pipe, lpc, devices, handle,
             dev_state, hk, py, taps, rec, typ, phys>>

lisVars == <<hk_thread, stop_event, stop_pipe, pipe, lpc, devices, handle, dev_state, hk>>

\* What none of the evdev listener's own steps touches.
auxVars == <<py, taps, rec, typ, phys>>

strVars == <<backend, toggle_shortcut, ptt_shortcut, captured, auxVars>>

sessVars == <<api_key, running, ws, loop, thread, tpc, lst, wsst, lq, wire, gui, aud>>

appVars == <<config_key, recording, recorder_on, window_active, typing_mode, timers>>

tokVars == <<nonfinal_typed_text, text_q, tok, sink>>

vars == <<keyVars, calls, sessVars, appVars, tokVars>>

\* Python's None where a session (1, 2, ...) may stand.
None == 0

(***************************************************************************)
(* hotkeys.py: key codes, shortcut configurations, normalisation           *)
(***************************************************************************)

\* Time window for the second press of a sequential shortcut: 0.6 s = 3 ticks.
SEQ_WINDOW == 3

\* The clock stops advancing here.
MaxNow == 6

\* evdev key codes the listener is fed with (ecodes.KEY_*).
EventCodes == {"KEY_LEFTCTRL", "KEY_RIGHTCTRL", "KEY_LEFTSHIFT", "KEY_V", "KEY_A", "KEY_B"}

\* _EVDEV_MODIFIER_PAIRS: right variant -> left variant.
EVDEV_MODIFIER_PAIRS ==
    [c \in {"KEY_RIGHTCTRL", "KEY_RIGHTSHIFT", "KEY_RIGHTALT", "KEY_RIGHTMETA"} |->
        CASE c = "KEY_RIGHTCTRL"  -> "KEY_LEFTCTRL"
          [] c = "KEY_RIGHTSHIFT" -> "KEY_LEFTSHIFT"
          [] c = "KEY_RIGHTALT"   -> "KEY_LEFTALT"
          [] c = "KEY_RIGHTMETA"  -> "KEY_LEFTMETA"]

\* _EvdevHotkeyListener._normalize_key: _EVDEV_MODIFIER_PAIRS.get(code, code)
normalize_key(code) ==
    IF code \in DOMAIN EVDEV_MODIFIER_PAIRS THEN EVDEV_MODIFIER_PAIRS[code] ELSE code

\* _ShortcutConfig(combo=frozenset(), seq_keys=())
ShortcutConfig(combo, seq_keys) == [combo |-> combo, seq_keys |-> seq_keys]

is_sequential(cfg) == Len(cfg.seq_keys) = 2
\* is_combo that holds of every configuration, the empty one too.
is_combo_always(cfg) == TRUE

is_combo(cfg) == cfg.combo # {}
is_empty(cfg) == cfg.combo = {} /\ cfg.seq_keys = <<>>

(***************************************************************************)
(* hotkeys.py: shortcut strings and their parsers                          *)
(*                                                                         *)
(* A shortcut string is a sequence of pieces: a piece is a separator       *)
(* ("+" or ","), the legacy prefix "2x", or the text of a token. The text  *)
(* between two separators is the concatenation of the pieces that stand    *)
(* there; no concatenation of two or more pieces is in any table of the    *)
(* parsers, is one character long, or names a key in angle brackets.       *)
(***************************************************************************)

\* The two listener classes HotkeyManager chooses from.
Backends == {"evdev", "pynput"}

\* A key that a token fails to resolve to (Python's None).
NoKey == "None"

\* token.strip().lower()
strip_lower(token) == IF token = " A" THEN "a" ELSE token

\* A string starts with "2x" iff its first piece is "2x".
\* _normalize_shortcut_str: "2x<rest>" becomes "<rest>,<rest>".
normalize_shortcut_str(s) ==
    IF s # <<>> /\ s[1] = "2x" THEN Tail(s) \o <<",">> \o Tail(s) ELSE s

\* Position of the first piece `sep` in s, 0 when there is none.
find(s, sep) ==
    IF \E k \in 1..Len(s) : s[k] = sep
    THEN CHOOSE k \in 1..Len(s) : s[k] = sep /\ \A j \in 1..(k - 1) : s[j] # sep
    ELSE 0

\* s.split(sep): the list of the texts between the separators.
RECURSIVE split(_, _)
split(s, sep) ==
    LET k == find(s, sep)
    IN  IF k = 0 THEN <<s>>
        ELSE <<SubSeq(s, 1, k - 1)>> \o split(SubSeq(s, k + 1, Len(s)), sep)

\* s.split(sep, 1) of a string that holds sep: the text before the first
\* sep and everything after it.
split1(s, sep) ==
    LET k == find(s, sep)
    IN  <<SubSeq(s, 1, k - 1), SubSeq(s, k + 1, Len(s))>>

\* The text of a part, stripped and lowered; "?" for the empty text and for
\* every concatenation of pieces.
token_text(part) == IF Len(part) = 1 THEN strip_lower(part[1]) ELSE "?"

\* _evdev_token_map, the left variant ([0]) of each generic modifier.
evdev_token_map ==
    [t \in {"<ctrl>", "<shift>", "<alt>", "<super>", "<cmd>"} |->
        CASE t = "<ctrl>"  -> "KEY_LEFTCTRL"
          [] t = "<shift>" -> "KEY_LEFTSHIFT"
          [] t = "<alt>"   -> "KEY_LEFTALT"
          [] t = "<super>" -> "KEY_LEFTMETA"
          [] t = "<cmd>"   -> "KEY_LEFTMETA"]

\* _evdev_char_map
evdev_char_map ==
    [c \in {"a", "b", "v"} |->
        CASE c = "a" -> "KEY_A" [] c = "b" -> "KEY_B" [] c = "v" -> "KEY_V"]

\* getattr(ecodes, "KEY_" + NAME, None) for a token "<name>".
ecodes_attr(token) == IF token = "<esc>" THEN "KEY_ESC" ELSE NoKey

\* _resolve_evdev_token
resolve_evdev_token(part) ==
    LET token == token_text(part)
    IN  IF token \in DOMAIN evdev_token_map THEN evdev_token_map[token]
        ELSE IF token \in DOMAIN evdev_char_map THEN evdev_char_map[token]
             ELSE ecodes_attr(token)

\* _PynputHotkeyListener._parse_shortcut, key_map.
pynput_key_map ==
    [t \in {"<ctrl>", "<shift>", "<alt>", "<super>", "<cmd>"} |->
        CASE t = "<ctrl>"  -> "Key.ctrl_l"
          [] t = "<shift>" -> "Key.shift_l"
          [] t = "<alt>"   -> "Key.alt_l"
          [] t = "<super>" -> "Key.cmd"
          [] t = "<cmd>"   -> "Key.cmd"]

\* The texts of one character.
Chars == {"a", "b", "v", "+", ","}

\* keyboard.Key[name] for a token "<name>"; KeyError gives None.
pynput_key_item(token) == IF token = "<esc>" THEN "Key.esc" ELSE NoKey

\* _parse_shortcut, _resolve: key_map, then KeyCode.from_char for a text
\* of one character, then keyboard.Key[name].
pynput_resolve(part) ==
    LET token == token_text(part)
    IN  IF token \in DOMAIN pynput_key_map THEN pynput_key_map[token]
        ELSE IF token \in Chars THEN token
             ELSE pynput_key_item(token)

\* The resolver of listener b.
resolve_token(b, part) ==
    IF b = "evdev" THEN resolve_evdev_token(part) ELSE pynput_resolve(part)

\* Keys of `parts` that resolve, as a set.
resolved(b, parts) ==
    {resolve_token(b, parts[k]) : k \in 1..Len(parts)} \ {NoKey}

\* parse_shortcut with the all-or-nothing chord: one unknown token empties
\* the binding.
parse_shortcut_strict(b, shortcut_str) ==
    IF shortcut_str = <<>> THEN ShortcutConfig({}, <<>>)
    ELSE LET s == normalize_shortcut_str(shortcut_str)
         IN  IF find(s, ",") # 0
             THEN LET halves == split1(s, ",")
                      first  == resolve_token(b, halves[1])
                      second == resolve_token(b, halves[2])
                  IN  IF first # NoKey /\ second # NoKey
                      THEN ShortcutConfig({}, <<first, second>>)
                      ELSE ShortcutConfig({}, <<>>)
             ELSE LET parts == split(s, "+")
                  IN  IF \E k \in 1..Len(parts) : resolve_token(b, parts[k]) = NoKey
                      THEN ShortcutConfig({}, <<>>)
                      ELSE ShortcutConfig(resolved(b, parts), <<>>)

\* _parse_shortcut_evdev / _PynputHotkeyListener._parse_shortcut: the two
\* differ in the resolver only.
parse_shortcut(b, shortcut_str) ==
    IF shortcut_str = <<>> THEN ShortcutConfig({}, <<>>)
    ELSE LET s == normalize_shortcut_str(shortcut_str)
         IN  IF find(s, ",") # 0
             THEN LET halves == split1(s, ",")
                      first  == resolve_token(b, halves[1])
                      second == resolve_token(b, halves[2])
                  IN  IF first # NoKey /\ second # NoKey
                      THEN ShortcutConfig({}, <<first, second>>)
                      ELSE ShortcutConfig({}, <<>>)
             ELSE ShortcutConfig(resolved(b, split(s, "+")), <<>>)

parse_shortcut_evdev(shortcut_str) == parse_shortcut("evdev", shortcut_str)

parse_shortcut_pynput(shortcut_str) == parse_shortcut("pynput", shortcut_str)

\* _PynputHotkeyListener._normalize_key: ctrl_r, shift_r, alt_r and alt_gr
\* fold to the left key; every other key is itself.
pynput_normalize_key(key) ==
    CASE key = "Key.ctrl_r"  -> "Key.ctrl_l"
      [] key = "Key.shift_r" -> "Key.shift_l"
      [] key = "Key.alt_r"   -> "Key.alt_l"
      [] key = "Key.alt_gr"  -> "Key.alt_l"
      [] OTHER -> key

\* self._normalize_key of the listener in use.
backend_normalize_key(raw) ==
    IF backend = "evdev" THEN normalize_key(raw) ELSE pynput_normalize_key(raw)

\* The strings the bindings of the recognition runs are set from:
\* "<ctrl>+<shift>+v", "a,a", "a,b" and "".
ShortcutStrings ==
    { <<"<ctrl>", "+", "<shift>", "+", "v">>,
      <<"a", ",", "a">>,
      <<"a", ",", "b">>,
      <<>> }

\* The configurations _parse_shortcut_evdev returns for them.
ShortcutConfigs == {parse_shortcut_evdev(s) : s \in ShortcutStrings}

\* _SeqState
SeqState(armed, armed_time) == [armed |-> armed, armed_time |-> armed_time]
SeqReset == SeqState(FALSE, 0)

(***************************************************************************)
(* hotkeys.py: the recognition step                                        *)
(***************************************************************************)

\* _check_seq that fires without resetting the state: the binding stays
\* armed and the next press in the window fires again.
check_seq_rearm(cfg, state, code, t) ==
    IF ~is_sequential(cfg) THEN [fire |-> FALSE, state |-> state]
    ELSE IF code = cfg.seq_keys[2] /\ state.armed /\ (t - state.armed_time) <= SEQ_WINDOW
         THEN [fire |-> TRUE, state |-> SeqState(TRUE, t)]
         ELSE IF code = cfg.seq_keys[1]
              THEN [fire |-> FALSE, state |-> SeqState(TRUE, t)]
              ELSE [fire |-> FALSE, state |-> state]

\* _check_seq with "<" for "<=": a press exactly at the window's edge is lost.
check_seq_strict(cfg, state, code, t) ==
    IF ~is_sequential(cfg) THEN [fire |-> FALSE, state |-> state]
    ELSE IF code = cfg.seq_keys[2] /\ state.armed /\ (t - state.armed_time) < SEQ_WINDOW
         THEN [fire |-> TRUE, state |-> SeqReset]
         ELSE IF code = cfg.seq_keys[1]
              THEN [fire |-> FALSE, state |-> SeqState(TRUE, t)]
              ELSE [fire |-> FALSE, state |-> state]

\* _check_seq(cfg, state, code): the result and the state it leaves.
check_seq(cfg, state, code, t) ==
    IF ~is_sequential(cfg) THEN [fire |-> FALSE, state |-> state]
    ELSE IF code = cfg.seq_keys[2] /\ state.armed /\ (t - state.armed_time) <= SEQ_WINDOW
         THEN [fire |-> TRUE, state |-> SeqReset]
         ELSE IF code = cfg.seq_keys[1]
              THEN [fire |-> FALSE, state |-> SeqState(TRUE, t)]
              ELSE [fire |-> FALSE, state |-> state]

\* _combo_matches
combo_matches(cfg, keys) == is_combo(cfg) /\ cfg.combo \subseteq keys

\* _on_key_down, toggle half, without the latch test: fires on every key-down
\* while the combo is held.
toggle_down_nolatch(code, keys) ==
    IF is_sequential(toggle_cfg)
    THEN LET r == check_seq(toggle_cfg, toggle_seq, code, now)
         IN  [fire |-> r.fire, seq |-> r.state, active |-> toggle_combo_active]
    ELSE IF is_combo(toggle_cfg) /\ combo_matches(toggle_cfg, keys)
         THEN [fire |-> TRUE, seq |-> toggle_seq, active |-> TRUE]
         ELSE [fire |-> FALSE, seq |-> toggle_seq, active |-> toggle_combo_active]

\* _on_key_down, toggle half (lines 452-464).
toggle_down(code, keys) ==
    IF is_sequential(toggle_cfg)
    THEN LET r == check_seq(toggle_cfg, toggle_seq, code, now)
         IN  [fire |-> r.fire, seq |-> r.state, active |-> toggle_combo_active]
    ELSE IF is_combo(toggle_cfg) /\ combo_matches(toggle_cfg, keys)
                                /\ ~toggle_combo_active
         THEN [fire |-> TRUE, seq |-> toggle_seq, active |-> TRUE]
         ELSE [fire |-> FALSE, seq |-> toggle_seq, active |-> toggle_combo_active]

\* _on_key_down, push-to-talk half (lines 466-480).
ptt_down(code, keys) ==
    IF is_sequential(ptt_cfg)
    THEN LET r == check_seq(ptt_cfg, ptt_seq, code, now)
         IN  IF r.fire /\ ~ptt_combo_active
             THEN [fire |-> TRUE, seq |-> r.state, active |-> TRUE]
             ELSE [fire |-> FALSE, seq |-> r.state, active |-> ptt_combo_active]
    ELSE IF is_combo(ptt_cfg) /\ combo_matches(ptt_cfg, keys) /\ ~ptt_combo_active
         THEN [fire |-> TRUE, seq |-> ptt_seq, active |-> TRUE]
         ELSE [fire |-> FALSE, seq |-> ptt_seq, active |-> ptt_combo_active]

\* _on_key_up without the latch test: a release is raised with no hold open.
ptt_up_nolatch(code) ==
    IF is_combo(ptt_cfg) /\ code \in ptt_cfg.combo
    THEN [fire |-> TRUE, active |-> FALSE]
    ELSE IF is_sequential(ptt_cfg) /\ code = ptt_cfg.seq_keys[2]
         THEN [fire |-> TRUE, active |-> FALSE]
         ELSE [fire |-> FALSE, active |-> ptt_combo_active]

\* _on_key_up, push-to-talk release (lines 483-497).
ptt_up(code) ==
    IF ptt_combo_active /\ is_combo(ptt_cfg) /\ code \in ptt_cfg.combo
    THEN [fire |-> TRUE, active |-> FALSE]
    ELSE IF ptt_combo_active /\ is_sequential(ptt_cfg) /\ code = ptt_cfg.seq_keys[2]
         THEN [fire |-> TRUE, active |-> FALSE]
         ELSE [fire |-> FALSE, active |-> ptt_combo_active]

\* The toggle latch reset without the membership test: any key-up clears it.
toggle_up_any(code) ==
    IF toggle_combo_active /\ is_combo(toggle_cfg) THEN FALSE ELSE toggle_combo_active

\* _on_key_up, toggle latch reset (lines 499-502).
toggle_up(code) ==
    IF toggle_combo_active /\ is_combo(toggle_cfg) /\ code \in toggle_cfg.combo
    THEN FALSE
    ELSE toggle_combo_active

\* History of the event stream, kept per binding ("toggle" / "ptt"); it is
\* computed from the events and the callbacks raised, never from the
\* listener's latches or armed flags.
\*   first_at  (sequential) time of the latest key-down of the first key that
\*             no later fire has used up, -1 when there is none
\*   released  (sequential) a key-up of the first key was seen since then
\*   late      (sequential) the pending first_at was set by a press of the
\*             second key that came too late to complete the binding
\*   fired     the binding has fired at least once
\*   up_since  (combo) a key of the combo was released since the last fire
\*   open      (push-to-talk) presses raised minus releases raised
HistInit == [first_at |-> -1, released |-> FALSE, late |-> FALSE,
             fired |-> FALSE, up_since |-> FALSE, open |-> 0]

HistSeqDown(h, cfg, code, fired) ==
    IF ~is_sequential(cfg) THEN h
    ELSE IF fired
         THEN [h EXCEPT !.first_at = -1]
         ELSE IF code = cfg.seq_keys[1]
              THEN [h EXCEPT !.first_at = now, !.released = FALSE,
                             !.late = (code = cfg.seq_keys[2] /\ h.first_at >= 0
                                       /\ now - h.first_at > SEQ_WINDOW)]
              ELSE h

\* `holds`: the binding's fire opens a hold that a release ends (push-to-talk).
HistDown(h, cfg, code, fired, holds) ==
    LET g == HistSeqDown(h, cfg, code, fired)
    IN  IF fired
        THEN [g EXCEPT !.fired = TRUE, !.up_since = FALSE,
                       !.open = IF holds THEN @ + 1 ELSE @]
        ELSE g

HistUp(h, cfg, code, released) ==
    LET g == IF is_sequential(cfg) /\ code = cfg.seq_keys[1] /\ h.first_at >= 0
             THEN [h EXCEPT !.released = TRUE]
             ELSE IF is_combo(cfg) /\ code \in cfg.combo
                  THEN [h EXCEPT !.up_since = TRUE]
                  ELSE h
    IN  IF released THEN [g EXCEPT !.open = @ - 1] ELSE g

\* The event stream of the worked example: ctrl-down, shift-down, v-down,
\* v-up, shift-up, ctrl-up (normalised codes).
ExampleStream ==
    << <<"down", "KEY_LEFTCTRL">>, <<"down", "KEY_LEFTSHIFT">>, <<"down", "KEY_V">>,
       <<"up", "KEY_V">>, <<"up", "KEY_LEFTSHIFT">>, <<"up", "KEY_LEFTCTRL">> >>

\* How far the events so far follow ExampleStream from the start (pos, -1 once
\* they left it) and at which of its events on_toggle was raised (fires).
ExampleInit == [pos |-> 0, fires |-> {}]

ExampleStep(e, kind, code, fired) ==
    IF e.pos >= 0 /\ e.pos < Len(ExampleStream) /\ ExampleStream[e.pos + 1] = <<kind, code>>
    THEN [pos |-> e.pos + 1, fires |-> IF fired THEN e.fires \cup {e.pos + 1} ELSE e.fires]
    ELSE [pos |-> -1, fires |-> {}]

\* _run, event.value == 1: add the normalised code to the held set, then
\* _on_key_down.
OnKeyDown(raw) ==
    LET code == backend_normalize_key(raw)
        keys == current_keys \cup {code}
        t    == toggle_down(code, keys)
        p    == ptt_down(code, keys)
    IN  /\ current_keys' = keys
        /\ toggle_seq' = t.seq
        /\ toggle_combo_active' = t.active
        /\ ptt_seq' = p.seq
        /\ ptt_combo_active' = p.active
        /\ calls' = (IF t.fire THEN <<"on_toggle">> ELSE <<>>)
                    \o (IF p.fire THEN <<"on_ptt_press">> ELSE <<>>)
        /\ hist' = [toggle  |-> HistDown(hist.toggle, toggle_cfg, code, t.fire, FALSE),
                    ptt     |-> HistDown(hist.ptt, ptt_cfg, code, p.fire, TRUE),
                    example |-> ExampleStep(hist.example, "down", code, t.fire)]
        /\ UNCHANGED <<toggle_cfg, ptt_cfg, now, backend, toggle_shortcut, ptt_shortcut,
                       captured, lisVars, sessVars, appVars, tokVars>>

KeyDown(raw) == OnKeyDown(raw) /\ UNCHANGED auxVars

\* _run, event.value == 0: _on_key_up, then discard the code from the held set.
OnKeyUp(raw) ==
    LET code == backend_normalize_key(raw)
        p    == ptt_up(code)
    IN  /\ ptt_combo_active' = p.active
        /\ toggle_combo_active' = toggle_up(code)
        /\ current_keys' = current_keys \ {code}
        /\ calls' = (IF p.fire THEN <<"on_ptt_release">> ELSE <<>>)
        /\ hist' = [toggle  |-> HistUp(hist.toggle, toggle_cfg, code, FALSE),
                    ptt     |-> HistUp(hist.ptt, ptt_cfg, code, p.fire),
                    example |-> ExampleStep(hist.example, "up", code, FALSE)]
        /\ UNCHANGED <<toggle_cfg, ptt_cfg, toggle_seq, ptt_seq, now, backend,
                       toggle_shortcut, ptt_shortcut, captured, lisVars,
                       sessVars, appVars, tokVars>>

KeyUp(raw) == OnKeyUp(raw) /\ UNCHANGED auxVars

\* time.monotonic() advances between two events.
Tick ==
    /\ now < MaxNow
    /\ now' = now + 1
    /\ UNCHANGED <<toggle_cfg, ptt_cfg, current_keys, toggle_seq, ptt_seq,
                   toggle_combo_active, ptt_combo_active, calls, hist, strVars, lisVars,
                   sessVars, appVars, tokVars>>

(***************************************************************************)
(* hotkeys.py: _PynputHotkeyListener, the recognition step                 *)
(*                                                                         *)
(* p is the listener's own state (see PyInit); the two bindings are the    *)
(* parsed bindings toggle_cfg and ptt_cfg.                                 *)
(***************************************************************************)

\* _PynputHotkeyListener._check_seq, lines 681-696.
pynput_check_seq(cfg, state, key, t) ==
    IF ~is_sequential(cfg) THEN [fire |-> FALSE, state |-> state]
    ELSE LET first_key  == cfg.seq_keys[1]
             second_key == cfg.seq_keys[2]
         IN  IF key = second_key /\ state.armed /\ (t - state.armed_time) <= SEQ_WINDOW
             THEN [fire |-> TRUE, state |-> SeqReset]
             ELSE IF key = first_key
                  THEN [fire |-> FALSE, state |-> SeqState(TRUE, t)]
                  ELSE [fire |-> FALSE, state |-> state]

\* _PynputHotkeyListener._combo_matches, lines 698-700.
pynput_combo_matches(cfg, keys) == is_combo(cfg) /\ cfg.combo \subseteq keys

\* _on_press, lines 702-734: the normalised key joins the held set, then
\* the toggle binding, then the push-to-talk binding.
pynput_on_press(p, key, t) ==
    LET normalized == pynput_normalize_key(key)
        keys == p.current_keys \cup {normalized}
        tg == IF is_sequential(toggle_cfg)
              THEN LET r == pynput_check_seq(toggle_cfg, p.toggle_seq, normalized, t)
                   IN  [fire |-> r.fire, seq |-> r.state, active |-> p.toggle_combo_active]
              ELSE IF is_combo(toggle_cfg) /\ pynput_combo_matches(toggle_cfg, keys)
                                          /\ ~p.toggle_combo_active
                   THEN [fire |-> TRUE, seq |-> p.toggle_seq, active |-> TRUE]
                   ELSE [fire |-> FALSE, seq |-> p.toggle_seq,
                         active |-> p.toggle_combo_active]
        pt == IF is_sequential(ptt_cfg)
              THEN LET r == pynput_check_seq(ptt_cfg, p.ptt_seq, normalized, t)
                   IN  IF r.fire /\ ~p.ptt_combo_active
                       THEN [fire |-> TRUE, seq |-> r.state, active |-> TRUE]
                       ELSE [fire |-> FALSE, seq |-> r.state, active |-> p.ptt_combo_active]
              ELSE IF is_combo(ptt_cfg) /\ pynput_combo_matches(ptt_cfg, keys)
                                       /\ ~p.ptt_combo_active
                   THEN [fire |-> TRUE, seq |-> p.ptt_seq, active |-> TRUE]
                   ELSE [fire |-> FALSE, seq |-> p.ptt_seq, active |-> p.ptt_combo_active]
    IN  [current_keys |-> keys,
         toggle_seq |-> tg.seq, toggle_combo_active |-> tg.active,
         ptt_seq |-> pt.seq, ptt_combo_active |-> pt.active,
         calls |-> (IF tg.fire THEN <<"on_toggle">> ELSE <<>>)
                      \o (IF pt.fire THEN <<"on_ptt_press">> ELSE <<>>)]

\* _on_release that ends a hold of a combo binding only.
pynput_on_release_combo_only(p, key) ==
    LET normalized == pynput_normalize_key(key)
        rel == p.ptt_combo_active /\ is_combo(ptt_cfg) /\ normalized \in ptt_cfg.combo
    IN  [p EXCEPT !.ptt_combo_active = IF rel THEN FALSE ELSE @,
                  !.toggle_combo_active =
                      IF @ /\ is_combo(toggle_cfg) /\ normalized \in toggle_cfg.combo
                      THEN FALSE ELSE @,
                  !.current_keys = @ \ {normalized},
                  !.calls = IF rel THEN <<"on_ptt_release">> ELSE <<>>]

\* _on_release, lines 736-762: the release of a combo hold, then of a
\* sequential hold (at most one of the two: a binding is of one kind), the
\* toggle latch, and the key leaves the held set.
pynput_on_release(p, key) ==
    LET normalized == pynput_normalize_key(key)
        rel_combo == p.ptt_combo_active /\ is_combo(ptt_cfg)
                        /\ normalized \in ptt_cfg.combo
        active1 == IF rel_combo THEN FALSE ELSE p.ptt_combo_active
        rel_seq == active1 /\ is_sequential(ptt_cfg) /\ normalized = ptt_cfg.seq_keys[2]
        active2 == IF rel_seq THEN FALSE ELSE active1
    IN  [p EXCEPT !.ptt_combo_active = active2,
                  !.toggle_combo_active =
                      IF @ /\ is_combo(toggle_cfg) /\ normalized \in toggle_cfg.combo
                      THEN FALSE ELSE @,
                  !.current_keys = @ \ {normalized},
                  !.calls = (IF rel_combo THEN <<"on_ptt_release">> ELSE <<>>)
                               \o (IF rel_seq THEN <<"on_ptt_release">> ELSE <<>>)]

\* The event the evdev listener handles, handed to the pynput listener
\* too, at the same time.
TwinDown(raw) ==
    /\ OnKeyDown(raw)
    /\ py' = pynput_on_press(py, normalize_key(raw), now)
    /\ UNCHANGED <<taps, rec, typ, phys>>

TwinUp(raw) ==
    /\ OnKeyUp(raw)
    /\ py' = pynput_on_release(py, normalize_key(raw))
    /\ UNCHANGED <<taps, rec, typ, phys>>

\* Callback cb is among the callbacks cs.
Raised(cb, cs) == \E i \in 1..Len(cs) : cs[i] = cb

\* Presses of the double-tap key counted in a row.
MaxTaps == 5

\* A key-down as above, counted: a press of the key of a double-tap toggle
\* binding that comes within SEQ_WINDOW of the press before it goes on the
\* row, any other such press begins a row; on_toggle raised at the press is
\* a fire of the row.
TapDown(raw) ==
    LET code   == backend_normalize_key(raw)
        tap    == is_sequential(toggle_cfg) /\ code = toggle_cfg.seq_keys[1]
                     /\ code = toggle_cfg.seq_keys[2]
        within == taps.last >= 0 /\ now - taps.last <= SEQ_WINDOW
    IN  /\ ~(tap /\ within /\ taps.n >= MaxTaps)
        /\ OnKeyDown(raw)
        /\ taps' = IF ~tap THEN taps
                   ELSE [n |-> IF within THEN taps.n + 1 ELSE 1,
                         fires |-> (IF within THEN taps.fires ELSE 0)
                                      + (IF Raised("on_toggle", calls') THEN 1 ELSE 0),
                         last |-> now]
        /\ UNCHANGED <<py, rec, typ, phys>>

(***************************************************************************)
(* hotkeys.py: _EvdevHotkeyListener, start(), stop() and the thread _run   *)
(*                                                                         *)
(* Listener thread i is the i-th thread start() creates, with the pipe     *)
(* made for it. start() and stop() run on the calling thread, which waits  *)
(* in join(); _run runs on the listener thread.                            *)
(***************************************************************************)

\* Threads start() may create, and the input devices evdev.list_devices()
\* names (keyboards all).
MaxListeners == 2
Listeners == 1..MaxListeners
Devices == {"event0", "event1"}

\* __init__, lines 303-306, with no thread ever started.
ListenIdle ==
    /\ hk_thread = None
    /\ stop_event = FALSE
    /\ stop_pipe = None
    /\ pipe = [p \in Listeners |-> [r |-> "none", w |-> "none", byte |-> FALSE]]
    /\ lpc = [i \in Listeners |-> [pc |-> "unborn", pipe |-> None]]
    /\ devices = [i \in Listeners |-> {}]
    /\ handle = [i \in Listeners |-> [d \in Devices |-> "none"]]
    /\ hk = [pc |-> "idle", in_start |-> FALSE, prev |-> "none", timed_out |-> FALSE]

\* What the listener actions leave alone.
notListener == <<toggle_cfg, ptt_cfg, now, hist, strVars, sessVars, appVars, tokVars>>

heldVars == <<current_keys, toggle_seq, ptt_seq, toggle_combo_active, ptt_combo_active>>

\* stop(), lines 326-331: set the event, write a byte to the pipe (OSError
\* swallowed); then the caller is at join().
StopSignal(in_start) ==
    /\ stop_event' = TRUE
    /\ pipe' = IF stop_pipe # None /\ pipe[stop_pipe].w = "open"
               THEN [pipe EXCEPT ![stop_pipe].byte = TRUE]
               ELSE pipe
    /\ hk' = [hk EXCEPT !.pc = "join", !.in_start = in_start]
    /\ calls' = <<>>
    /\ UNCHANGED <<hk_thread, stop_pipe, lpc, devices, handle, dev_state, heldVars,
                   notListener>>

\* stop() called.
HkStop ==
    /\ hk.pc = "idle"
    /\ StopSignal(FALSE)

\* start(), lines 318-319: a thread is referenced, stop() first.
HkStart ==
    /\ hk.pc = "idle"
    /\ IF hk_thread # None
       THEN StopSignal(TRUE)
       ELSE /\ hk' = [hk EXCEPT !.pc = "start_rest"]
            /\ calls' = <<>>
            /\ UNCHANGED <<hk_thread, stop_event, stop_pipe, pipe, lpc, devices,
                           handle, dev_state, heldVars, notListener>>

\* stop(), lines 332-347: join(timeout=2) returns because the thread has
\* ended, or after 2 s with the thread still running (timed_out), or there
\* is no thread to join; then the thread is forgotten, both ends of the
\* pipe are closed, the held keys, armed flags and latches cleared.
HkStopFinish(timed_out) ==
    /\ hk.pc = "join"
    /\ IF hk_thread = None THEN ~timed_out
       ELSE timed_out <=> lpc[hk_thread].pc # "dead"
    /\ hk_thread' = None
    /\ pipe' = IF stop_pipe # None
               THEN [pipe EXCEPT ![stop_pipe].r = "closed", ![stop_pipe].w = "closed"]
               ELSE pipe
    /\ stop_pipe' = None
    /\ current_keys' = {}
    /\ toggle_seq' = SeqReset
    /\ ptt_seq' = SeqReset
    /\ toggle_combo_active' = FALSE
    /\ ptt_combo_active' = FALSE
    /\ hk' = IF hk.in_start
             THEN [hk EXCEPT !.pc = "start_rest", !.timed_out = @ \/ timed_out]
             ELSE [pc |-> "idle", in_start |-> FALSE, prev |-> "stop",
                   timed_out |-> hk.timed_out \/ timed_out]
    /\ calls' = <<>>
    /\ UNCHANGED <<stop_event, lpc, devices, handle, dev_state, notListener>>

\* start(), lines 320-323: clear the event, make the pipe, start the thread.
HkStartRest ==
    /\ hk.pc = "start_rest"
    /\ \E i \in Listeners :
          /\ lpc[i].pc = "unborn"
          /\ \A j \in 1..(i - 1) : lpc[j].pc # "unborn"
          /\ stop_event' = FALSE
          /\ pipe' = [pipe EXCEPT ![i] = [r |-> "open", w |-> "open", byte |-> FALSE]]
          /\ stop_pipe' = i
          /\ hk_thread' = i
          /\ lpc' = [lpc EXCEPT ![i].pc = "opening"]
    /\ hk' = [hk EXCEPT !.pc = "idle", !.in_start = FALSE, !.prev = "start"]
    /\ calls' = <<>>
    /\ UNCHANGED <<devices, handle, dev_state, heldVars, notListener>>

\* _run, the finally block (lines 416-421): the devices still in the list
\* are closed.
close_listed(i) ==
    [handle EXCEPT ![i] = [d \in Devices |-> IF d \in devices[i] THEN "closed" ELSE @[d]]]

\* _run, lines 357-380: every device that can be opened is opened and
\* listed; with none, the error is logged and the thread returns.
ListenerOpen(i) ==
    /\ lpc[i].pc = "opening"
    /\ LET ok == {d \in Devices : dev_state[d] = "ok"}
       IN  /\ devices' = [devices EXCEPT ![i] = ok]
           /\ handle' = [handle EXCEPT ![i] = [d \in Devices |->
                                                 IF d \in ok THEN "open" ELSE @[d]]]
           /\ lpc' = [lpc EXCEPT ![i].pc = IF ok = {} THEN "dead" ELSE "loop"]
           /\ calls' = IF ok = {} THEN <<"log.error">> ELSE <<>>
    /\ UNCHANGED <<hk_thread, stop_event, stop_pipe, pipe, dev_state, hk, heldVars,
                   notListener>>

\* _run, lines 383-389: the event is tested; if it is not set the
\* descriptors are collected, the read end self._stop_pipe_r names now
\* among them, and the thread waits in select.
ListenerLoop(i) ==
    /\ lpc[i].pc = "loop"
    /\ IF stop_event
       THEN /\ handle' = close_listed(i)
            /\ lpc' = [lpc EXCEPT ![i].pc = "dead"]
       ELSE /\ lpc' = [lpc EXCEPT ![i] = [pc |-> "select", pipe |-> stop_pipe]]
            /\ handle' = handle
    /\ calls' = <<>>
    /\ UNCHANGED <<hk_thread, stop_event, stop_pipe, pipe, devices, dev_state, hk,
                   heldVars, notListener>>

\* _run, lines 389-394: select returns the pipe. If it is the pipe
\* self._stop_pipe_r names now the thread returns through the finally
\* block; otherwise the descriptor is no device and is skipped. Selecting
\* a closed descriptor raises, and the thread ends through the finally
\* block as well.
ListenerPipe(i) ==
    /\ lpc[i].pc = "select"
    /\ lpc[i].pipe # None
    /\ \/ pipe[lpc[i].pipe].r = "closed"
       \/ pipe[lpc[i].pipe].r = "open" /\ pipe[lpc[i].pipe].byte
    /\ IF pipe[lpc[i].pipe].r = "closed" \/ stop_pipe = lpc[i].pipe
       THEN /\ handle' = close_listed(i)
            /\ lpc' = [lpc EXCEPT ![i].pc = "dead"]
       ELSE /\ lpc' = [lpc EXCEPT ![i].pc = "loop"]
            /\ handle' = handle
    /\ calls' = <<>>
    /\ UNCHANGED <<hk_thread, stop_event, stop_pipe, pipe, devices, dev_state, hk,
                   heldVars, notListener>>

\* _run, lines 399-415: reading an unplugged device raises OSError; the
\* device is removed from the list, its InputDevice is not closed.
ListenerReadFails(i, d) ==
    /\ lpc[i].pc = "select"
    /\ d \in devices[i]
    /\ dev_state[d] = "gone"
    /\ devices' = [devices EXCEPT ![i] = @ \ {d}]
    /\ handle' = [handle EXCEPT ![i][d] = "dropped"]
    /\ lpc' = [lpc EXCEPT ![i].pc = "loop"]
    /\ calls' = <<>>
    /\ UNCHANGED <<hk_thread, stop_event, stop_pipe, pipe, dev_state, hk, heldVars,
                   notListener>>

\* _run, line 389: select times out after a second with nothing to read.
ListenerTimeout(i) ==
    /\ lpc[i].pc = "select"
    /\ lpc' = [lpc EXCEPT ![i].pc = "loop"]
    /\ calls' = <<>>
    /\ UNCHANGED <<hk_thread, stop_event, stop_pipe, pipe, devices, handle, dev_state,
                   hk, heldVars, notListener>>

\* A keyboard is unplugged.
DeviceGone(d) ==
    /\ dev_state[d] = "ok"
    /\ dev_state' = [dev_state EXCEPT ![d] = "gone"]
    /\ calls' = <<>>
    /\ UNCHANGED <<hk_thread, stop_event, stop_pipe, pipe, lpc, devices, handle, hk,
                   heldVars, notListener>>

\* The interpreter finalises an InputDevice that nothing refers to any
\* more: when, and whether before the process ends, is up to it.
Finalize(i, d) ==
    /\ handle[i][d] = "dropped"
    /\ handle' = [handle EXCEPT ![i][d] = "closed"]
    /\ calls' = <<>>
    /\ UNCHANGED <<hk_thread, stop_event, stop_pipe, pipe, lpc, devices, dev_state, hk,
                   heldVars, notListener>>

\* _run, lines 384-400: select returns with a keyboard readable. Whether
\* the pipe it waited on is readable too (stop() has written its byte) is
\* fixed at that moment; select reports the descriptors in the order of
\* read_fds, the keyboards before the pipe, and stop_event is not tested
\* again before the for loop has gone through all of them.
ListenerRead(i) ==
    /\ lpc[i].pc = "select"
    /\ \E d \in devices[i] : dev_state[d] = "ok"
    /\ lpc[i].pipe = None \/ pipe[lpc[i].pipe].r = "open"
    /\ lpc' = [lpc EXCEPT ![i].pc =
                  IF lpc[i].pipe # None /\ pipe[lpc[i].pipe].byte
                  THEN "read_woken" ELSE "read"]
    /\ calls' = <<>>
    /\ UNCHANGED <<hk_thread, stop_event, stop_pipe, pipe, devices, handle, dev_state,
                   hk, heldVars, notListener>>

\* A listener thread is inside `for event in dev.read()`.
Reading == {i \in Listeners : lpc[i].pc \in {"read", "read_woken"}}

\* Key codes the keyboards deliver while the application reconfigures.
SaveCodes == {"KEY_A", "KEY_B"}

\* _run, lines 400-408: a key-down event of the batch is handled: the
\* normalised code joins the held set, then _on_key_down.
DispatchDown(raw) ==
    LET code == backend_normalize_key(raw)
        keys == current_keys \cup {code}
        t    == toggle_down(code, keys)
        p    == ptt_down(code, keys)
    IN  /\ Reading # {}
        /\ current_keys' = keys
        /\ toggle_seq' = t.seq
        /\ toggle_combo_active' = t.active
        /\ ptt_seq' = p.seq
        /\ ptt_combo_active' = p.active
        /\ calls' = (IF t.fire THEN <<"on_toggle">> ELSE <<>>)
                    \o (IF p.fire THEN <<"on_ptt_press">> ELSE <<>>)
        /\ UNCHANGED <<toggle_cfg, ptt_cfg, now, hist, strVars, lisVars, sessVars,
                       appVars, tokVars>>

\* _run, lines 409-411: a key-up event of the batch is handled: _on_key_up,
\* then the code leaves the held set.
DispatchUp(raw) ==
    LET code == backend_normalize_key(raw)
        t    == toggle_up(code)
        p    == ptt_up(code)
    IN  /\ Reading # {}
        /\ current_keys' = current_keys \ {code}
        /\ toggle_combo_active' = t
        /\ ptt_combo_active' = p.active
        /\ calls' = IF p.fire THEN <<"on_ptt_release">> ELSE <<>>
        /\ UNCHANGED <<toggle_cfg, ptt_cfg, toggle_seq, ptt_seq, now, hist, strVars,
                       lisVars, sessVars, appVars, tokVars>>

\* _run, lines 391-397 after the keyboards: with the pipe among the
\* readable descriptors, the thread returns if it is the one
\* self._stop_pipe_r names now, and skips it otherwise (fds.get(fd) is
\* None); without it the for loop ends and the while loop goes on.
ListenerReadDone(i) ==
    /\ i \in Reading
    /\ IF lpc[i].pc = "read_woken" /\ stop_pipe = lpc[i].pipe
       THEN /\ handle' = close_listed(i)
            /\ lpc' = [lpc EXCEPT ![i].pc = "dead"]
       ELSE /\ lpc' = [lpc EXCEPT ![i].pc = "loop"]
            /\ handle' = handle
    /\ calls' = <<>>
    /\ UNCHANGED <<hk_thread, stop_event, stop_pipe, pipe, devices, dev_state, hk,
                   heldVars, notListener>>

\* A listener thread that has been started and has not returned.
ListenerAlive == {i \in Listeners : lpc[i].pc \notin {"unborn", "dead"}}

(***************************************************************************)
(* app.py: _setup_hotkeys and _on_save, the only callers of the listener   *)
(*                                                                         *)
(* hk.prev is the last call the application has made: "none" after the     *)
(* constructor, then "set", "start", "save" (in _on_save, at stop()),      *)
(* "stop".                                                                 *)
(***************************************************************************)

\* _setup_hotkeys, lines 348-351, into set_shortcuts (hotkeys.py 308-315):
\* both configurations are parsed from the configured strings and the two
\* sequential states reset; the held keys and the latches are not touched.
\* It is called from __init__ and from _on_save after stop() has returned.
AppSetShortcuts ==
    /\ hk.pc = "idle"
    /\ hk.prev \in {"none", "stop"}
    /\ toggle_cfg' = parse_shortcut_evdev(toggle_shortcut)
    /\ ptt_cfg' = parse_shortcut_evdev(ptt_shortcut)
    /\ toggle_seq' = SeqReset
    /\ ptt_seq' = SeqReset
    /\ hk' = [hk EXCEPT !.prev = "set"]
    /\ calls' = <<>>
    /\ UNCHANGED <<current_keys, toggle_combo_active, ptt_combo_active, now, hist,
                   hk_thread, stop_event, stop_pipe, pipe, lpc, devices, handle,
                   dev_state, strVars, sessVars, appVars, tokVars>>

\* _setup_hotkeys, line 355: start() after set_shortcuts().
AppStart ==
    /\ hk.prev = "set"
    /\ HkStart

\* _on_save, lines 479-509: the settings window's strings are stored; with
\* a shortcut changed, stop() is called and the application waits in join().
OnSave(toggle, ptt) ==
    /\ hk.pc = "idle"
    /\ hk.prev = "start"
    /\ toggle # toggle_shortcut \/ ptt # ptt_shortcut
    /\ toggle_shortcut' = toggle
    /\ ptt_shortcut' = ptt
    /\ stop_event' = TRUE
    /\ pipe' = IF stop_pipe # None /\ pipe[stop_pipe].w = "open"
               THEN [pipe EXCEPT ![stop_pipe].byte = TRUE]
               ELSE pipe
    /\ hk' = [hk EXCEPT !.pc = "join", !.in_start = FALSE, !.prev = "save"]
    /\ calls' = <<>>
    /\ UNCHANGED <<hk_thread, stop_pipe, lpc, devices, handle, dev_state, heldVars,
                   toggle_cfg, ptt_cfg, now, hist, backend, captured, auxVars,
                   sessVars, appVars, tokVars>>

\* _EvdevHotkeyListener.__init__
KeysIdle ==
    /\ current_keys = {}
    /\ toggle_seq = SeqReset
    /\ ptt_seq = SeqReset
    /\ toggle_combo_active = FALSE
    /\ ptt_combo_active = FALSE
    /\ now = 0
    /\ hist = [toggle |-> HistInit, ptt |-> HistInit, example |-> ExampleInit]
    /\ ListenIdle
    /\ dev_state = [d \in Devices |-> "ok"]

(***************************************************************************)
(* ui.py: ShortcutCaptureInput; app.py: _setup_hotkeys                     *)
(***************************************************************************)

\* Qt keys the capture field is offered, the modifier ones among them
\* (_MODIFIER_KEYS), and the longest chord captured.
QtKeys == {"Qt.Key_Control", "Qt.Key_A", "Qt.Key_B"}
MODIFIER_KEYS == {"Qt.Key_Control", "Qt.Key_Meta"}
MaxChord == 2

\* _key_info: the config token of a Qt key (_KEY_NAMES, then A-Z).
key_info(k) ==
    CASE k = "Qt.Key_Control" -> "<ctrl>"
      [] k = "Qt.Key_Meta"    -> "<super>"
      [] k = "Qt.Key_A"       -> "a"
      [] k = "Qt.Key_B"       -> "b"

\* self._chord_keys when a chord completes: the keys pressed, each once, in
\* the order of their first press.
Chords ==
    {c \in UNION {[1..n -> QtKeys] : n \in 1..MaxChord} :
        \A i, j \in 1..Len(c) : i # j => c[i] # c[j]}

\* _keys_to_parts: the tokens of the modifier keys, then of the others.
keys_to_parts(keys) ==
    LET mods == SelectSeq(keys, LAMBDA k : k \in MODIFIER_KEYS)
        rest == SelectSeq(keys, LAMBDA k : k \notin MODIFIER_KEYS)
        all  == mods \o rest
    IN  [i \in 1..Len(all) |-> key_info(all[i])]

\* "+".join(tokens)
RECURSIVE join_plus(_)
join_plus(tokens) ==
    IF Len(tokens) <= 1 THEN tokens
    ELSE <<Head(tokens), "+">> \o join_plus(Tail(tokens))

\* Nothing captured: the string of the binding comes from the config file.
NoCapture == [first |-> <<>>, second |-> <<>>]

\* _commit_combo: the config string of one chord replaces the toggle
\* binding's; shortcut_changed starts the save timer. A chord completes
\* once all its keys are released (keyReleaseEvent); one shortcut is
\* captured in a run.
CommitCombo(keys) ==
    /\ captured = NoCapture
    /\ current_keys = {}
    /\ toggle_shortcut' = join_plus(keys_to_parts(keys))
    /\ captured' = [first |-> keys, second |-> <<>>]
    /\ calls' = <<"shortcut_changed">>
    /\ UNCHANGED <<toggle_cfg, ptt_cfg, current_keys, toggle_seq, ptt_seq,
                   toggle_combo_active, ptt_combo_active, now, hist, backend,
                   ptt_shortcut, auxVars, lisVars, sessVars, appVars, tokVars>>

\* _commit_sequential: the config strings of the two chords, joined by ",".
CommitSequential(first_keys, second_keys) ==
    /\ captured = NoCapture
    /\ current_keys = {}
    /\ toggle_shortcut' = join_plus(keys_to_parts(first_keys)) \o <<",">>
                             \o join_plus(keys_to_parts(second_keys))
    /\ captured' = [first |-> first_keys, second |-> second_keys]
    /\ calls' = <<"shortcut_changed">>
    /\ UNCHANGED <<toggle_cfg, ptt_cfg, current_keys, toggle_seq, ptt_seq,
                   toggle_combo_active, ptt_combo_active, now, hist, backend,
                   ptt_shortcut, auxVars, lisVars, sessVars, appVars, tokVars>>

\* _setup_hotkeys, at startup and from _on_save after hotkeys.stop(): the
\* listener's held keys, armed flags and latches are clear (stop() clears
\* them, __init__ creates them clear), and set_shortcuts parses the two
\* strings of the configuration.
SetupHotkeys ==
    /\ toggle_cfg' = parse_shortcut(backend, toggle_shortcut)
    /\ ptt_cfg' = parse_shortcut(backend, ptt_shortcut)
    /\ current_keys' = {}
    /\ toggle_seq' = SeqReset
    /\ ptt_seq' = SeqReset
    /\ toggle_combo_active' = FALSE
    /\ ptt_combo_active' = FALSE
    /\ calls' = <<"set_shortcuts">>
    /\ UNCHANGED <<now, hist, strVars, lisVars, sessVars, appVars, tokVars>>

(***************************************************************************)
(* transcriber.py: RealtimeTranscriber                                     *)
(*                                                                         *)
(* Session i is the i-th background thread started by start(), with the    *)
(* event loop it creates and the connection it opens. start() and stop()   *)
(* run on the calling (GUI) thread, send_audio() on the audio callback     *)
(* thread, _run_loop() on the session's own thread; every read or write    *)
(* of self._running, self._ws, self._loop, self._thread is a step of its   *)
(* own where another thread can come in between.                           *)
(***************************************************************************)

\* Sessions (background threads) that start() may launch.
MaxThreads == 2

\* Callbacks waiting on the current event loop when a caller comes in.
MaxPending == 1

\* send_audio() calls made by the audio callback thread.
MaxAudio == 1

\* Room for one more callback on the loop self._loop names.
HasRoom == loop # None => Len(lq[loop]) < MaxPending

Sessions == 1..MaxThreads

\* threading.Thread.is_alive()
Alive(i) == tpc[i] \notin {"unborn", "dead"}

Started == {i \in Sessions : tpc[i] # "unborn"}

\* The configuration message has gone out on the current connection and
\* the session has not been stopped: the session is streaming.
Streaming ==
    /\ running
    /\ ws # None
    /\ \E k \in 1..Len(wire[ws]) : wire[ws][k] = "config"

GuiIdle(prev) ==
    [pc |-> "idle", blocking |-> FALSE, ws |-> None, loop |-> None,
     join |-> None, app |-> FALSE, prev |-> prev]

\* `call` raised: the exception unwinds the caller's handler. prev keeps
\* the last call made on the transcriber.
Threw(call) == GuiIdle(call)

\* `call` returned: _start_recording goes on to line 407, any other caller
\* is done.
Returned(call) ==
    IF gui.app /\ call = "start"
    THEN [Threw(call) EXCEPT !.pc = "app_recorder"]
    ELSE Threw(call)

\* RealtimeTranscriber.__init__ (api_key is set by the specification).
SessIdle ==
    /\ running = FALSE
    /\ ws = None
    /\ loop = None
    /\ thread = None
    /\ tpc = [i \in Sessions |-> "unborn"]
    /\ lst = [i \in Sessions |-> "none"]
    /\ wsst = [i \in Sessions |-> "none"]
    /\ lq = [i \in Sessions |-> <<>>]
    /\ wire = [i \in Sessions |-> <<>>]
    /\ gui = GuiIdle("none")
    /\ aud = [pc |-> "idle", n |-> 0, early |-> FALSE]

\* VoiceBoardApp.__init__: the transcriber is built with the configured key.
AppIdle ==
    /\ config_key = api_key
    /\ recording = FALSE
    /\ recorder_on = FALSE
    /\ window_active = FALSE
    /\ typing_mode = "realtime"
    /\ timers = 0

\* ---- start() ----------------------------------------------------------

\* The credential test left out.
has_api_key_always(key) == TRUE

\* start(), line 82, and _start_recording(), line 380: `not key` is false.
has_api_key(key) == key # ""

\* start(), lines 80-89: the two early returns, then the first read of
\* self._thread.
StartEnter ==
    /\ gui.pc \in {"idle", "app_start"}
    /\ IF running
       THEN /\ gui' = Returned("start")
            /\ calls' = <<>>
       ELSE IF ~has_api_key(api_key)
            THEN /\ gui' = Returned("start")
                 /\ calls' = <<"on_error">>
            ELSE /\ Cardinality(Started) < MaxThreads
                 /\ gui' = [gui EXCEPT !.pc = IF thread = None THEN "start_launch"
                                                               ELSE "start_alive"]
                 /\ calls' = <<>>
    /\ UNCHANGED <<keyVars, api_key, running, ws, loop, thread, tpc, lst, wsst, lq,
                   wire, aud, appVars, tokVars>>

\* start(), line 89: self._thread.is_alive() reads self._thread again.
StartAlive ==
    /\ gui.pc = "start_alive"
    /\ IF thread = None
       THEN /\ gui' = Threw("start")
            /\ calls' = <<"start raises">>
       ELSE /\ gui' = [gui EXCEPT !.pc = IF Alive(thread) THEN "start_join"
                                                           ELSE "start_launch"]
            /\ calls' = <<>>
    /\ UNCHANGED <<keyVars, api_key, running, ws, loop, thread, tpc, lst, wsst, lq,
                   wire, aud, appVars, tokVars>>

\* start(), line 90: self._thread.join(timeout=2) reads self._thread again.
StartJoin ==
    /\ gui.pc = "start_join"
    /\ IF thread = None
       THEN /\ gui' = Threw("start")
            /\ calls' = <<"start raises">>
       ELSE /\ gui' = [gui EXCEPT !.pc = "start_joining", !.join = thread]
            /\ calls' = <<>>
    /\ UNCHANGED <<keyVars, api_key, running, ws, loop, thread, tpc, lst, wsst, lq,
                   wire, aud, appVars, tokVars>>

\* join(timeout=2) returns because the thread has finished.
StartJoinReturns ==
    /\ gui.pc = "start_joining"
    /\ ~Alive(gui.join)
    /\ gui' = [gui EXCEPT !.pc = "start_launch", !.join = None]
    /\ calls' = <<>>
    /\ UNCHANGED <<keyVars, api_key, running, ws, loop, thread, tpc, lst, wsst, lq,
                   wire, aud, appVars, tokVars>>

\* join(timeout=2) returns after 2 s with the thread still alive.
StartJoinTimesOut ==
    /\ gui.pc = "start_joining"
    /\ Alive(gui.join)
    /\ gui' = [gui EXCEPT !.pc = "start_launch", !.join = None]
    /\ calls' = <<>>
    /\ UNCHANGED <<keyVars, api_key, running, ws, loop, thread, tpc, lst, wsst, lq,
                   wire, aud, appVars, tokVars>>

\* start(), lines 91-96: self._thread = None, self._running = True, the
\* provisional text forgotten, a new thread created and started.
StartLaunch ==
    /\ gui.pc = "start_launch"
    /\ LET n == Cardinality(Started) + 1
       IN  /\ thread' = n
           /\ tpc' = [tpc EXCEPT ![n] = "run"]
    /\ running' = TRUE
    /\ nonfinal_typed_text' = <<>>
    /\ gui' = Returned("start")
    /\ calls' = <<>>
    /\ UNCHANGED <<keyVars, api_key, ws, loop, lst, wsst, lq, wire, aud, appVars,
                   text_q, tok, sink>>

\* ---- stop() -----------------------------------------------------------

\* stop(), lines 105-108: self._running = False, then ws and loop are read
\* into locals.
StopBegin(blocking) ==
    /\ gui.pc = "idle"
    /\ HasRoom
    /\ running' = FALSE
    /\ gui' = [gui EXCEPT !.pc = "stop_check", !.blocking = blocking,
                          !.ws = ws, !.loop = loop]
    /\ calls' = <<>>
    /\ UNCHANGED <<keyVars, api_key, ws, loop, thread, tpc, lst, wsst, lq, wire, aud,
                   tokVars>>

\* stop(blocking) called on the transcriber.
CallStop(blocking) == StopBegin(blocking) /\ UNCHANGED appVars

\* stop(), line 109: ws is not None and loop is not None and loop.is_running()
StopCheck ==
    /\ gui.pc = "stop_check"
    /\ gui' = [gui EXCEPT !.pc =
                  IF gui.ws # None /\ gui.loop # None /\ lst[gui.loop] = "running"
                  THEN "stop_sched" ELSE "stop_blk"]
    /\ calls' = <<>>
    /\ UNCHANGED <<keyVars, api_key, running, ws, loop, thread, tpc, lst, wsst, lq,
                   wire, aud, appVars, tokVars>>

\* stop(), line 110: run_coroutine_threadsafe(self._close_ws(ws), loop);
\* call_soon_threadsafe raises RuntimeError on a loop closed meanwhile; a
\* callback put on a loop that has stopped never runs and is not kept.
StopSched ==
    /\ gui.pc = "stop_sched"
    /\ IF lst[gui.loop] = "closed"
       THEN /\ gui' = Threw("stop")
            /\ calls' = <<"stop raises">>
            /\ lq' = lq
       ELSE /\ lq' = IF lst[gui.loop] = "stopped" THEN lq
                      ELSE [lq EXCEPT ![gui.loop] = Append(@, [op |-> "close", ws |-> gui.ws])]
            /\ gui' = [gui EXCEPT !.pc = "stop_blk"]
            /\ calls' = <<>>
    /\ UNCHANGED <<keyVars, api_key, running, ws, loop, thread, tpc, lst, wsst,
                   wire, aud, appVars, tokVars>>

\* stop(), line 111: blocking and self._thread is not None
StopBlk ==
    /\ gui.pc = "stop_blk"
    /\ gui' = IF gui.blocking /\ thread # None
              THEN [gui EXCEPT !.pc = "stop_join"]
              ELSE Returned("stop")
    /\ calls' = <<>>
    /\ UNCHANGED <<keyVars, api_key, running, ws, loop, thread, tpc, lst, wsst, lq,
                   wire, aud, appVars, tokVars>>

\* stop(), line 112: self._thread.join(timeout=5) reads self._thread again.
StopJoin ==
    /\ gui.pc = "stop_join"
    /\ IF thread = None
       THEN /\ gui' = Threw("stop")
            /\ calls' = <<"stop raises">>
       ELSE /\ gui' = [gui EXCEPT !.pc = "stop_joining", !.join = thread]
            /\ calls' = <<>>
    /\ UNCHANGED <<keyVars, api_key, running, ws, loop, thread, tpc, lst, wsst, lq,
                   wire, aud, appVars, tokVars>>

\* stop(), lines 112-115: join returns because the thread has finished.
StopJoinReturns ==
    /\ gui.pc = "stop_joining"
    /\ ~Alive(gui.join)
    /\ thread' = None
    /\ ws' = None
    /\ loop' = None
    /\ gui' = Returned("stop")
    /\ calls' = <<>>
    /\ UNCHANGED <<keyVars, api_key, running, tpc, lst, wsst, lq, wire, aud,
                   appVars, tokVars>>

\* stop(), lines 112-115: join returns after 5 s with the thread still alive.
StopJoinTimesOut ==
    /\ gui.pc = "stop_joining"
    /\ Alive(gui.join)
    /\ thread' = None
    /\ ws' = None
    /\ loop' = None
    /\ gui' = Returned("stop")
    /\ calls' = <<>>
    /\ UNCHANGED <<keyVars, api_key, running, tpc, lst, wsst, lq, wire, aud,
                   appVars, tokVars>>

\* ---- send_audio() -----------------------------------------------------

\* send_audio, line 122: not (not _running or _ws is None or _loop is None)
send_audio_passes == running /\ ws # None /\ loop # None

\* send_audio(), lines 122-123. `early` remembers that the chunk was passed
\* while the session was not streaming.
SendAudioCheck ==
    /\ aud.pc = "idle"
    /\ aud.n < MaxAudio
    /\ HasRoom
    /\ aud' = IF send_audio_passes
              THEN [pc |-> "send", n |-> aud.n + 1, early |-> ~Streaming]
              ELSE [pc |-> "idle", n |-> aud.n + 1, early |-> FALSE]
    /\ calls' = <<>>
    /\ UNCHANGED <<keyVars, api_key, running, ws, loop, thread, tpc, lst, wsst, lq,
                   wire, gui, appVars, tokVars>>

\* What asyncio.run_coroutine_threadsafe(self._ws.send(x), self._loop)
\* raises, lines 126-128, 141-143, 152-154: self._ws.send on None and
\* call_soon_threadsafe on None are AttributeErrors, a closed loop refuses
\* the callback with RuntimeError.
send_raises ==
    IF ws = None \/ loop = None THEN "AttributeError"
    ELSE IF lst[loop] = "closed" THEN "RuntimeError" ELSE "none"

\* An except clause that lets what is not a RuntimeError through.
except_RuntimeError(e) == e = "RuntimeError"

\* `except Exception: pass`, lines 129-130, 144-145, 155-156.
except_Exception(e) == e \in {"AttributeError", "RuntimeError"}

\* The callbacks waiting on the loops after the attempt to schedule `op`:
\* a callback put on a loop that has stopped never runs and is not kept.
send_scheduled(op) ==
    IF send_raises = "none" /\ lst[loop] # "stopped"
    THEN [lq EXCEPT ![loop] = Append(@, [op |-> op, ws |-> ws])]
    ELSE lq

\* What the caller of send_audio, finalize or send_eof sees of the attempt.
send_seen(dropped, raises) ==
    IF send_raises = "none" THEN <<>>
    ELSE IF except_Exception(send_raises) THEN <<dropped>> ELSE <<raises>>

\* send_audio(), lines 125-130: self._ws and self._loop are read again;
\* whatever is raised (None meanwhile, loop closed) is swallowed.
SendAudioSend ==
    /\ aud.pc = "send"
    /\ lq' = send_scheduled(IF aud.early THEN "audio_early" ELSE "audio")
    /\ aud' = [aud EXCEPT !.pc = "idle", !.early = FALSE]
    /\ calls' = send_seen("send_audio dropped", "send_audio raises")
    /\ UNCHANGED <<keyVars, api_key, running, ws, loop, thread, tpc, lst, wsst,
                   wire, gui, appVars, tokVars>>

\* ---- _run_loop() / _session() / _listen(): the session's thread --------

\* _run_loop(), line 170: self._loop = asyncio.new_event_loop()
ThreadRun(i) ==
    /\ tpc[i] = "run"
    /\ loop' = i
    /\ lst' = [lst EXCEPT ![i] = "new"]
    /\ tpc' = [tpc EXCEPT ![i] = "loop_start"]
    /\ calls' = <<>>
    /\ UNCHANGED <<keyVars, api_key, running, ws, thread, wsst, lq, wire, gui, aud,
                   appVars, tokVars>>

\* _run_loop(), line 173: run_until_complete starts the loop; _session()
\* suspends in connect().
LoopStart(i) ==
    /\ tpc[i] = "loop_start"
    /\ lst' = [lst EXCEPT ![i] = "running"]
    /\ tpc' = [tpc EXCEPT ![i] = "connecting"]
    /\ calls' = <<>>
    /\ UNCHANGED <<keyVars, api_key, running, ws, loop, thread, wsst, lq, wire, gui,
                   aud, appVars, tokVars>>

\* _session(), lines 192-197: the connection is open, self._ws = ws.
ConnectOk(i) ==
    /\ tpc[i] = "connecting"
    /\ wsst' = [wsst EXCEPT ![i] = "open"]
    /\ ws' = i
    /\ tpc' = [tpc EXCEPT ![i] = "configuring"]
    /\ calls' = <<>>
    /\ UNCHANGED <<keyVars, api_key, running, loop, thread, lst, lq, wire, gui, aud,
                   appVars, tokVars>>

\* _session(), lines 207-211: connect() raises; on_error only if still
\* running. _session returns and the loop stops; the callbacks still
\* scheduled on it never run.
ConnectFail(i) ==
    /\ tpc[i] = "connecting"
    /\ calls' = IF running THEN <<"on_error">> ELSE <<>>
    /\ lst' = [lst EXCEPT ![i] = "stopped"]
    /\ lq' = [lq EXCEPT ![i] = <<>>]
    /\ tpc' = [tpc EXCEPT ![i] = "fin_running"]
    /\ UNCHANGED <<keyVars, api_key, running, ws, loop, thread, wsst, wire, gui,
                   aud, appVars, tokVars>>

\* _send_config(), lines 213-229: the configuration is written to the
\* connection before the task suspends.
SendConfig(i) ==
    /\ tpc[i] = "configuring"
    /\ wire' = [wire EXCEPT ![i] = Append(@, "config")]
    /\ tpc' = [tpc EXCEPT ![i] = "listening"]
    /\ calls' = <<>>
    /\ UNCHANGED <<keyVars, api_key, running, ws, loop, thread, lst, wsst, lq, gui,
                   aud, appVars, tokVars>>

\* The loop of session i runs the oldest callback scheduled with
\* run_coroutine_threadsafe while its task is suspended: ws.send(...) on an
\* open connection writes the frame, on a closed one raises into a future
\* nobody reads; _close_ws closes the connection.
LoopRun(i) ==
    /\ tpc[i] \in {"connecting", "listening"}
    /\ lq[i] # <<>>
    /\ LET cb == Head(lq[i])
       IN  IF cb.op = "close"
           THEN /\ wsst' = [wsst EXCEPT ![cb.ws] = IF @ = "open" THEN "closed" ELSE @]
                /\ wire' = wire
           ELSE /\ wire' = IF wsst[cb.ws] = "open"
                           THEN [wire EXCEPT ![cb.ws] = Append(@, cb.op)]
                           ELSE wire
                /\ wsst' = wsst
    /\ lq' = [lq EXCEPT ![i] = Tail(@)]
    /\ calls' = <<>>
    /\ UNCHANGED <<keyVars, api_key, running, ws, loop, thread, tpc, lst, gui, aud,
                   appVars, tokVars>>

\* _listen(), line 233: the connection was closed by _close_ws; the
\* iteration over ws ends.
ListenEnds(i) ==
    /\ tpc[i] = "listening"
    /\ wsst[i] = "closed"
    /\ tpc' = [tpc EXCEPT ![i] = "exit"]
    /\ calls' = <<>>
    /\ UNCHANGED <<keyVars, api_key, running, ws, loop, thread, lst, wsst, lq, wire,
                   gui, aud, appVars, tokVars>>

\* _session(), line 196: leaving `async with` closes the connection;
\* run_until_complete returns and the loop stops with whatever callbacks
\* are still scheduled on it.
SessionExit(i) ==
    /\ tpc[i] = "exit"
    /\ wsst' = [wsst EXCEPT ![i] = "closed"]
    /\ lst' = [lst EXCEPT ![i] = "stopped"]
    /\ lq' = [lq EXCEPT ![i] = <<>>]
    /\ tpc' = [tpc EXCEPT ![i] = "fin_running"]
    /\ calls' = <<>>
    /\ UNCHANGED <<keyVars, api_key, running, ws, loop, thread, wire, gui, aud,
                   appVars, tokVars>>

\* _run_loop(), line 180: self._running = False
FinRunning(i) ==
    /\ tpc[i] = "fin_running"
    /\ running' = FALSE
    /\ tpc' = [tpc EXCEPT ![i] = "fin_ws"]
    /\ calls' = <<>>
    /\ UNCHANGED <<keyVars, api_key, ws, loop, thread, lst, wsst, lq, wire, gui, aud,
                   appVars, tokVars>>

\* _run_loop(), line 181: self._ws = None
FinWs(i) ==
    /\ tpc[i] = "fin_ws"
    /\ ws' = None
    /\ tpc' = [tpc EXCEPT ![i] = "fin_close"]
    /\ calls' = <<>>
    /\ UNCHANGED <<keyVars, api_key, running, loop, thread, lst, wsst, lq, wire, gui,
                   aud, appVars, tokVars>>

\* _run_loop(), lines 182-185: self._loop.close() closes whatever loop
\* self._loop names now; None or a running loop raises and is swallowed.
FinClose(i) ==
    /\ tpc[i] = "fin_close"
    /\ lst' = IF loop # None /\ lst[loop] # "running"
              THEN [lst EXCEPT ![loop] = "closed"]
              ELSE lst
    /\ tpc' = [tpc EXCEPT ![i] = "fin_loop"]
    /\ calls' = <<>>
    /\ UNCHANGED <<keyVars, api_key, running, ws, loop, thread, wsst, lq, wire, gui,
                   aud, appVars, tokVars>>

\* _run_loop(), line 186: self._loop = None
FinLoop(i) ==
    /\ tpc[i] = "fin_loop"
    /\ loop' = None
    /\ tpc' = [tpc EXCEPT ![i] = "fin_thread"]
    /\ calls' = <<>>
    /\ UNCHANGED <<keyVars, api_key, running, ws, thread, lst, wsst, lq, wire, gui,
                   aud, appVars, tokVars>>

\* _run_loop(), line 187: self._thread = None; the thread ends.
FinThread(i) ==
    /\ tpc[i] = "fin_thread"
    /\ thread' = None
    /\ tpc' = [tpc EXCEPT ![i] = "dead"]
    /\ calls' = <<>>
    /\ UNCHANGED <<keyVars, api_key, running, ws, loop, lst, wsst, lq, wire, gui,
                   aud, appVars, tokVars>>

\* ---- _process_tokens() ------------------------------------------------

\* Token batches one response may carry, responses handled while
\* streaming, and signals waiting for the GUI thread.
MaxTokens == 2
MaxBatches == 2
MaxQueue == 2

\* Texts are sequences of one-character strings.
TokenTexts ==
    { <<>>,
      <<"h", "e", "l">>,
      <<"h", "e", "l", "l", "o">>,
      <<" ", "w", "o", "r">>,
      <<"<", "e", "n", "d", ">">>,
      <<"l", "o", "<", "f", "i", "n", ">">> }

Tokens == [text : TokenTexts, is_final : BOOLEAN]

TokenBatches == UNION {[1..n -> Tokens] : n \in 1..MaxTokens}

\* \w of the regular expression, over the characters of TokenTexts.
IsWordChar(c) == c \notin {"<", ">", " "}

RECURSIVE WordRun(_)
\* Length of the longest prefix of s made of word characters (\w+ is greedy).
WordRun(s) ==
    IF s = <<>> \/ ~IsWordChar(Head(s)) THEN 0 ELSE 1 + WordRun(Tail(s))

RECURSIVE strip_markers(_)
\* re.sub(r"<\w+>", "", text), line 276: every leftmost occurrence of "<",
\* one or more word characters, ">" is removed.
strip_markers(s) ==
    IF s = <<>> THEN <<>>
    ELSE IF Head(s) = "<"
         THEN LET n == WordRun(Tail(s))
              IN  IF n >= 1 /\ Len(s) >= n + 2 /\ s[n + 2] = ">"
                  THEN strip_markers(SubSeq(s, n + 3, Len(s)))
                  ELSE <<"<">> \o strip_markers(Tail(s))
         ELSE <<Head(s)>> \o strip_markers(Tail(s))

RECURSIVE text_parts(_, _)
\* Lines 268-285: the stripped texts of the batch's final (or non-final)
\* tokens, joined in order; empty texts are skipped.
text_parts(tokens, final) ==
    IF tokens = <<>> THEN <<>>
    ELSE (IF Head(tokens).is_final = final THEN strip_markers(Head(tokens).text)
                                           ELSE <<>>)
         \o text_parts(Tail(tokens), final)

\* The correction with the erase count left at zero.
process_tokens_no_erase(tokens, typed) ==
    LET final_text == text_parts(tokens, TRUE)
        nonfinal_text == text_parts(tokens, FALSE)
    IN  IF final_text = <<>> /\ nonfinal_text = <<>>
        THEN [emit |-> FALSE, text |-> <<>>, backspace_count |-> 0, nonfinal |-> typed]
        ELSE [emit |-> TRUE, text |-> final_text \o nonfinal_text,
              backspace_count |-> 0, nonfinal |-> nonfinal_text]

\* _process_tokens(), lines 258-305, as a function of the batch and of
\* self._nonfinal_typed_text: whether on_text is raised and with what, and
\* the new self._nonfinal_typed_text.
process_tokens(tokens, typed) ==
    LET final_text == text_parts(tokens, TRUE)
        nonfinal_text == text_parts(tokens, FALSE)
    IN  IF final_text = <<>> /\ nonfinal_text = <<>>
        THEN [emit |-> FALSE, text |-> <<>>, backspace_count |-> 0, nonfinal |-> typed]
        ELSE [emit |-> TRUE, text |-> final_text \o nonfinal_text,
              backspace_count |-> Len(typed), nonfinal |-> nonfinal_text]

\* What a consumer of the instructions holds after "erase n, then type text".
Apply(buf, text, n) ==
    SubSeq(buf, 1, IF n > Len(buf) THEN 0 ELSE Len(buf) - n) \o text

TokInit ==
    [vbuf |-> <<>>, finals |-> <<>>, last_nonfinal |-> <<>>, text_nonfinal |-> <<>>,
     batches |-> 0, notes |-> {}, prev_nonfinal |-> [i \in Sessions |-> 0]]

\* The record of the batches handled so far, and of the instructions
\* raised for them; notes keeps the kinds of the other frames handled,
\* prev_nonfinal per session the length of the non-final text in the last
\* instruction it emitted.
TokStep(t, tokens, r) ==
    LET f == text_parts(tokens, TRUE)
        n == text_parts(tokens, FALSE)
    IN  [vbuf |-> IF r.emit THEN Apply(t.vbuf, r.text, r.backspace_count) ELSE t.vbuf,
         finals |-> t.finals \o f,
         last_nonfinal |-> n,
         text_nonfinal |-> IF f = <<>> /\ n = <<>> THEN t.text_nonfinal ELSE n,
         batches |-> t.batches + 1,
         notes |-> t.notes,
         prev_nonfinal |-> t.prev_nonfinal]

SinkInit == [out |-> 0, erase |-> 0, avail |-> 0]

\* The text sink: erase n characters, then type the text; an erase count
\* above what is outstanding erases what there is. avail is what was
\* outstanding when the count was handed over.
sink_apply(s, text, n) ==
    [out |-> (IF n > s.out THEN 0 ELSE s.out - n) + Len(text),
     erase |-> n, avail |-> s.out]

TokIdle ==
    /\ nonfinal_typed_text = <<>>
    /\ text_q = <<>>
    /\ tok = TokInit
    /\ sink = SinkInit

\* Server responses that parse to an object without an error code: the
\* token list (possibly empty) and the finished flag.
Responses(batches) ==
    [json : {"object"}, error_code : {FALSE}, tokens : batches, finished : BOOLEAN]

\* A frame that is not valid JSON ("invalid"), or valid JSON that is not an
\* object ("other": a list, a number, a string, null).
Malformed(json) ==
    [json |-> json, error_code |-> FALSE, tokens |-> <<>>, finished |-> FALSE]

\* Every frame the server may send: the responses above, responses with an
\* error code, and the malformed ones.
Frames(batches) ==
    Responses(batches)
      \cup [json : {"object"}, error_code : {TRUE}, tokens : batches, finished : BOOLEAN]
      \cup {Malformed("invalid"), Malformed("other")}

\* A response with an error code taken for a failure of the session.
response_kind_error_ends(msg) ==
    IF msg.json = "invalid" THEN "skip"
    ELSE IF msg.json = "other" THEN "raise"
         ELSE IF msg.error_code THEN "raise" ELSE "tokens"

\* _listen(), lines 236-249, what becomes of one frame: json.loads fails and
\* the frame is skipped; response.get raises on what is not an object; an
\* error code is reported and the rest of the response skipped; otherwise
\* the tokens and the finished flag are looked at.
response_kind(msg) ==
    IF msg.json = "invalid" THEN "skip"
    ELSE IF msg.json = "other" THEN "raise"
         ELSE IF msg.error_code THEN "error" ELSE "tokens"

\* _listen(), lines 233-256, one frame on an open connection. on_text
\* emits a queued signal to the GUI thread (app.py, line 255). What
\* response.get raises leaves _listen and `async with` (the connection is
\* closed) and is reported by _session, lines 207-211; the loop stops.
Recv(i, msg) ==
    /\ tpc[i] = "listening"
    /\ wsst[i] = "open"
    /\ Len(text_q) < MaxQueue
    /\ msg.tokens # <<>> => tok.batches < MaxBatches
    /\ IF ~running
       THEN /\ tpc' = [tpc EXCEPT ![i] = "exit"]
            /\ calls' = <<>>
            /\ UNCHANGED <<tokVars, lst, wsst, lq>>
       ELSE LET kind == response_kind(msg)
                r == IF kind = "tokens" /\ msg.tokens # <<>>
                     THEN process_tokens(msg.tokens, nonfinal_typed_text)
                     ELSE [emit |-> FALSE, text |-> <<>>, backspace_count |-> 0,
                           nonfinal |-> nonfinal_typed_text]
            IN  /\ nonfinal_typed_text' = r.nonfinal
                /\ text_q' = IF r.emit
                             THEN Append(text_q, [text |-> r.text,
                                                  backspace_count |-> r.backspace_count])
                             ELSE text_q
                /\ calls' = IF r.emit THEN <<"on_text">>
                            ELSE IF kind \in {"error", "raise"} THEN <<"on_error">>
                                 ELSE <<>>
                /\ tok' = IF kind = "tokens"
                          THEN IF msg.tokens # <<>>
                               THEN [TokStep(tok, msg.tokens, r) EXCEPT
                                        !.prev_nonfinal[i] =
                                           IF r.emit THEN Len(r.nonfinal) ELSE @]
                               ELSE tok
                          ELSE [tok EXCEPT !.notes = @ \cup {kind}]
                /\ sink' = sink
                /\ IF kind = "raise"
                   THEN /\ tpc' = [tpc EXCEPT ![i] = "fin_running"]
                        /\ wsst' = [wsst EXCEPT ![i] = "closed"]
                        /\ lst' = [lst EXCEPT ![i] = "stopped"]
                        /\ lq' = [lq EXCEPT ![i] = <<>>]
                   ELSE /\ tpc' = [tpc EXCEPT ![i] =
                                      IF kind = "tokens" /\ msg.finished THEN "exit" ELSE @]
                        /\ UNCHANGED <<lst, wsst, lq>>
    /\ UNCHANGED <<keyVars, api_key, running, ws, loop, thread, wire, gui, aud, appVars>>

\* The server, or the network, closes the connection of a listening
\* session: with a normal close code, or abnormally.
ServerClose(i, clean) ==
    /\ tpc[i] = "listening"
    /\ wsst[i] = "open"
    /\ wsst' = [wsst EXCEPT ![i] = IF clean THEN "lost_ok" ELSE "lost_err"]
    /\ calls' = <<>>
    /\ UNCHANGED <<keyVars, api_key, running, ws, loop, thread, tpc, lst, lq, wire,
                   gui, aud, appVars, tokVars>>

\* _listen(), line 233, on a connection the other side closed. After a
\* normal close the iteration over ws just ends; an abnormal one raises
\* ConnectionClosed, which leaves `async with` and is reported by _session,
\* lines 202-206, if _running is still true; the loop stops.
ListenLost(i) ==
    /\ tpc[i] = "listening"
    /\ wsst[i] \in {"lost_ok", "lost_err"}
    /\ IF wsst[i] = "lost_ok"
       THEN /\ tpc' = [tpc EXCEPT ![i] = "exit"]
            /\ calls' = <<>>
            /\ UNCHANGED <<lst, wsst, lq>>
       ELSE /\ tpc' = [tpc EXCEPT ![i] = "fin_running"]
            /\ calls' = IF running THEN <<"on_error">> ELSE <<>>
            /\ wsst' = [wsst EXCEPT ![i] = "closed"]
            /\ lst' = [lst EXCEPT ![i] = "stopped"]
            /\ lq' = [lq EXCEPT ![i] = <<>>]
    /\ UNCHANGED <<keyVars, api_key, running, ws, loop, thread, wire, gui, aud,
                   appVars, tokVars>>

\* ---- app.py: the handlers on the GUI thread ---------------------------

TypingModes == {"realtime", "slow", "none"}

\* _on_transcription_text(), lines 441-469, for the oldest queued signal;
\* has_final and final_text keep their defaults.
OnTranscriptionText ==
    /\ gui.pc = "idle"
    /\ text_q # <<>>
    /\ LET m == Head(text_q)
           typed == ~window_active /\ typing_mode = "realtime"
       IN  /\ sink' = IF typed THEN sink_apply(sink, m.text, m.backspace_count) ELSE sink
           /\ calls' = IF typed THEN <<"enqueue_text">> ELSE <<>>
    /\ text_q' = Tail(text_q)
    /\ UNCHANGED <<keyVars, sessVars, appVars, nonfinal_typed_text, tok>>

\* window.isActiveWindow() changes: the user focuses or leaves the window.
FocusChange ==
    /\ window_active' = ~window_active
    /\ calls' = <<>>
    /\ UNCHANGED <<keyVars, sessVars, config_key, recording, recorder_on,
                   typing_mode, timers, tokVars>>

\* _on_save(), line 484: the typing mode chosen in the settings.
SetTypingMode(m) ==
    /\ gui.pc = "idle"
    /\ m # typing_mode
    /\ typing_mode' = m
    /\ calls' = <<>>
    /\ UNCHANGED <<keyVars, sessVars, config_key, recording, recorder_on,
                   window_active, timers, tokVars>>

\* _on_save(), lines 484-488: the key typed in the settings reaches the
\* configuration and the transcriber.
OnSaveKey(k) ==
    /\ gui.pc = "idle"
    /\ k # config_key
    /\ config_key' = k
    /\ api_key' = k
    /\ calls' = <<>>
    /\ UNCHANGED <<keyVars, running, ws, loop, thread, tpc, lst, wsst, lq, wire, gui,
                   aud, recording, recorder_on, window_active, typing_mode, timers, tokVars>>

\* _start_recording(), lines 378-405, reached from _on_toggle or
\* _on_ptt_press while not recording: up to the call of transcriber.start().
AppStartRecording ==
    /\ gui.pc = "idle"
    /\ ~recording
    /\ IF ~has_api_key(config_key)
       THEN /\ calls' = <<"status_update">>
            /\ UNCHANGED <<recording, gui>>
       ELSE /\ calls' = <<>>
            /\ recording' = TRUE
            /\ gui' = [gui EXCEPT !.pc = "app_start", !.app = TRUE]
    /\ UNCHANGED <<keyVars, api_key, running, ws, loop, thread, tpc, lst, wsst, lq,
                   wire, aud, config_key, recorder_on, window_active,
                   typing_mode, timers, tokVars>>

\* _start_recording(), line 407: recorder.start()
AppRecorderStart ==
    /\ gui.pc = "app_recorder"
    /\ recorder_on' = TRUE
    /\ gui' = [gui EXCEPT !.pc = "idle"]
    /\ calls' = <<>>
    /\ UNCHANGED <<keyVars, api_key, running, ws, loop, thread, tpc, lst, wsst, lq,
                   wire, aud, config_key, recording, window_active,
                   typing_mode, timers, tokVars>>

\* Grace timers of _stop_recording that may be pending at once.
MaxTimers == 1

\* _stop_recording(), lines 415-423, reached from _on_toggle or
\* _on_ptt_release while recording: the flag is cleared and the recorder
\* stopped. Without the preview recorder.stop() closes the stream, which
\* waits for the callback in progress; with it the stream stays open.
AppStopRecording ==
    /\ gui.pc = "idle"
    /\ recording
    /\ timers < MaxTimers
    /\ (recorder_on /\ ~rec.previewing) => aud.pc = "idle"
    /\ recording' = FALSE
    /\ recorder_on' = FALSE
    /\ gui' = [gui EXCEPT !.pc = "app_finalize"]
    /\ calls' = <<>>
    /\ UNCHANGED <<keyVars, api_key, running, ws, loop, thread, tpc, lst, wsst, lq,
                   wire, aud, config_key, window_active, typing_mode, timers,
                   tokVars>>

\* finalize(), lines 137-138, called at app.py line 426.
AppFinalizeCheck ==
    /\ gui.pc = "app_finalize"
    /\ HasRoom
    /\ gui' = [gui EXCEPT !.pc = IF send_audio_passes THEN "app_finalize_send"
                                                     ELSE "app_eof"]
    /\ calls' = <<>>
    /\ UNCHANGED <<keyVars, api_key, running, ws, loop, thread, tpc, lst, wsst, lq,
                   wire, aud, appVars, tokVars>>

\* finalize(), lines 139-145. An exception that left finalize would leave
\* _stop_recording too.
AppFinalizeSend ==
    /\ gui.pc = "app_finalize_send"
    /\ lq' = send_scheduled("finalize")
    /\ calls' = send_seen("finalize dropped", "finalize raises")
    /\ gui' = [gui EXCEPT !.pc = IF Raised("finalize raises", calls') THEN "idle"
                                                                      ELSE "app_eof"]
    /\ UNCHANGED <<keyVars, api_key, running, ws, loop, thread, tpc, lst, wsst,
                   wire, aud, appVars, tokVars>>

\* send_eof(), lines 149-150, called at app.py line 427; when it returns
\* at once, QTimer.singleShot(1500, self._finish_stop), line 430.
AppEofCheck ==
    /\ gui.pc = "app_eof"
    /\ HasRoom
    /\ gui' = [gui EXCEPT !.pc = IF send_audio_passes THEN "app_eof_send" ELSE "idle"]
    /\ timers' = IF send_audio_passes THEN timers ELSE timers + 1
    /\ calls' = <<>>
    /\ UNCHANGED <<keyVars, api_key, running, ws, loop, thread, tpc, lst, wsst, lq,
                   wire, aud, config_key, recording, recorder_on, window_active,
                   typing_mode, tokVars>>

\* send_eof(), lines 151-156, then QTimer.singleShot(1500,
\* self._finish_stop), app.py line 430.
AppEofSend ==
    /\ gui.pc = "app_eof_send"
    /\ lq' = send_scheduled("eof")
    /\ calls' = send_seen("send_eof dropped", "send_eof raises")
    /\ timers' = IF Raised("send_eof raises", calls') THEN timers ELSE timers + 1
    /\ gui' = [gui EXCEPT !.pc = "idle"]
    /\ UNCHANGED <<keyVars, api_key, running, ws, loop, thread, tpc, lst, wsst,
                   wire, aud, config_key, recording, recorder_on, window_active,
                   typing_mode, tokVars>>

\* A grace timer fires: _finish_stop(), lines 432-435, calls
\* transcriber.stop(blocking=False).
AppFinishStop ==
    /\ timers > 0
    /\ timers' = timers - 1
    /\ StopBegin(FALSE)
    /\ UNCHANGED <<config_key, recording, recorder_on, window_active, typing_mode>>

\* _audio_callback, audio.py lines 195-205, on the capture thread: the
\* recorder is recording, the block goes on to on_audio_chunk.
AppAudioCallback ==
    /\ aud.pc = "idle"
    /\ aud.n < MaxAudio
    /\ recorder_on
    /\ aud' = [aud EXCEPT !.pc = "callback"]
    /\ calls' = <<"on_level">>
    /\ UNCHANGED <<keyVars, api_key, running, ws, loop, thread, tpc, lst, wsst, lq,
                   wire, gui, appVars, tokVars>>

\* _on_audio_chunk, app.py lines 437-439, on the capture thread:
\* send_audio(), lines 122-123.
AppOnAudioChunk ==
    /\ aud.pc = "callback"
    /\ HasRoom
    /\ aud' = IF send_audio_passes
              THEN [pc |-> "send", n |-> aud.n + 1, early |-> ~Streaming]
              ELSE [pc |-> "idle", n |-> aud.n + 1, early |-> FALSE]
    /\ calls' = <<>>
    /\ UNCHANGED <<keyVars, api_key, running, ws, loop, thread, tpc, lst, wsst, lq,
                   wire, gui, appVars, tokVars>>

(***************************************************************************)
(* audio.py: AudioRecorder; transcriber.py: the configuration message      *)
(*                                                                         *)
(* A block of audio is its number of samples and the time it spans (every  *)
(* block the stream delivers spans 100 ms); its sample rate is what the    *)
(* two give.                                                               *)
(***************************************************************************)

\* TARGET_RATE, audio.py line 22.
TARGET_RATE == 24000

\* _send_config, lines 215-224: the fields of the message that describe
\* the audio.
config_message ==
    [audio_format |-> "pcm_s16le", sample_rate |-> 16000, num_channels |-> 1]

\* default_samplerate of the input devices there are, and the blocks
\* handed to on_audio_chunk that are kept.
DeviceRates == {8000, 16000, 24000, 44100, 48000}
MaxChunks == 4

\* int(round(a / b)) for positive a, b: Python rounds halves to even.
round_div(a, b) ==
    LET q == a \div b
        r == a % b
    IN  IF 2 * r < b THEN q
        ELSE IF 2 * r > b THEN q + 1
             ELSE IF q % 2 = 0 THEN q ELSE q + 1

\* _resample_linear(data, src_rate, dst_rate), lines 62-77: the block
\* spans the same time with round(len * dst_rate / src_rate) samples.
resample_linear(len, src_rate, dst_rate) ==
    IF src_rate = dst_rate THEN len ELSE round_div(len * dst_rate, src_rate)

\* Samples per second of a block of `len` samples spanning `ms` milliseconds.
block_rate(len, ms) == (len * 1000) \div ms

\* AudioRecorder.__init__, lines 83-93; chunks are the blocks handed to
\* on_audio_chunk so far.
RecInit ==
    [recording |-> FALSE, previewing |-> FALSE, stream |-> FALSE,
     device_rate |-> TARGET_RATE, blocksize |-> 0, chunks |-> <<>>]

\* _open_stream, lines 103-147, with the default rate the device reports
\* (TARGET_RATE if the query fails) and the rates PortAudio can open it at:
\* the native rate is tried first, then TARGET_RATE; the stream delivers
\* blocks of int(rate * 0.1) samples.
open_stream(r, native, openable) ==
    IF r.stream THEN [ok |-> TRUE, rec |-> r]
    ELSE IF native \in openable
         THEN [ok |-> TRUE,
               rec |-> [r EXCEPT !.stream = TRUE, !.device_rate = native,
                                 !.blocksize = native \div 10]]
         ELSE IF TARGET_RATE \in openable
              THEN [ok |-> TRUE,
                    rec |-> [r EXCEPT !.stream = TRUE, !.device_rate = TARGET_RATE,
                                      !.blocksize = TARGET_RATE \div 10]]
              ELSE [ok |-> FALSE, rec |-> r]

\* start_preview, lines 156-161.
RecStartPreview(native, openable) ==
    /\ ~rec.previewing /\ ~rec.recording
    /\ LET o == open_stream(rec, native, openable)
       IN  /\ rec' = IF o.ok THEN [o.rec EXCEPT !.previewing = TRUE] ELSE rec
           /\ calls' = IF o.ok THEN <<>> ELSE <<"RuntimeError">>
    /\ UNCHANGED <<py, taps, typ, phys, toggle_cfg, ptt_cfg, current_keys, toggle_seq, ptt_seq,
                   toggle_combo_active, ptt_combo_active, now, hist, backend,
                   toggle_shortcut, ptt_shortcut, captured, lisVars,
                   sessVars, appVars, tokVars>>

\* stop_preview, lines 163-169.
RecStopPreview ==
    /\ rec.previewing
    /\ rec' = [rec EXCEPT !.previewing = FALSE,
                          !.stream = IF rec.recording THEN @ ELSE FALSE]
    /\ calls' = <<>>
    /\ UNCHANGED <<py, taps, typ, phys, toggle_cfg, ptt_cfg, current_keys, toggle_seq, ptt_seq,
                   toggle_combo_active, ptt_combo_active, now, hist, backend,
                   toggle_shortcut, ptt_shortcut, captured, lisVars,
                   sessVars, appVars, tokVars>>

\* start, lines 171-179.
RecStart(native, openable) ==
    /\ ~rec.recording
    /\ LET o == open_stream(rec, native, openable)
       IN  /\ rec' = IF o.ok THEN [o.rec EXCEPT !.recording = TRUE] ELSE rec
           /\ calls' = IF o.ok THEN <<>> ELSE <<"RuntimeError">>
    /\ UNCHANGED <<py, taps, typ, phys, toggle_cfg, ptt_cfg, current_keys, toggle_seq, ptt_seq,
                   toggle_combo_active, ptt_combo_active, now, hist, backend,
                   toggle_shortcut, ptt_shortcut, captured, lisVars,
                   sessVars, appVars, tokVars>>

\* stop, lines 181-187.
RecStop ==
    /\ rec.recording
    /\ rec' = [rec EXCEPT !.recording = FALSE,
                          !.stream = IF rec.previewing THEN @ ELSE FALSE]
    /\ calls' = <<>>
    /\ UNCHANGED <<py, taps, typ, phys, toggle_cfg, ptt_cfg, current_keys, toggle_seq, ptt_seq,
                   toggle_combo_active, ptt_combo_active, now, hist, backend,
                   toggle_shortcut, ptt_shortcut, captured, lisVars,
                   sessVars, appVars, tokVars>>

\* _audio_callback, lines 193-215, for one block of the open stream: the
\* level is reported; while recording the block is resampled from the
\* device's rate to TARGET_RATE and handed to on_audio_chunk, which is
\* _on_audio_chunk -> transcriber.send_audio (app.py lines 437-439).
AudioCallback ==
    /\ rec.stream
    /\ rec.recording \/ rec.previewing
    /\ Len(rec.chunks) < MaxChunks
    /\ IF rec.recording
       THEN LET pcm == IF rec.device_rate # TARGET_RATE
                       THEN resample_linear(rec.blocksize, rec.device_rate, TARGET_RATE)
                       ELSE rec.blocksize
            IN  /\ rec' = [rec EXCEPT !.chunks = Append(@, [len |-> pcm, ms |-> 100])]
                /\ calls' = <<"on_level", "send_audio">>
       ELSE /\ rec' = rec
            /\ calls' = <<"on_level">>
    /\ UNCHANGED <<py, taps, typ, phys, toggle_cfg, ptt_cfg, current_keys, toggle_seq, ptt_seq,
                   toggle_combo_active, ptt_combo_active, now, hist, backend,
                   toggle_shortcut, ptt_shortcut, captured, lisVars,
                   sessVars, appVars, tokVars>>

(***************************************************************************)
(* transcriber.py: _listen -> on_text; app.py: _on_transcription_text;     *)
(* typer.py: enqueue_text and the _TypingWorker thread                     *)
(*                                                                         *)
(* An instruction is numbered by its place among those the session         *)
(* raised; a typed character is (instruction, place in its text).          *)
(***************************************************************************)

\* Batches the server sends one after the other, and how many.
TypeBatches ==
    { <<[text |-> <<"h", "e", "l">>, is_final |-> FALSE]>>,
      <<[text |-> <<"h", "e", "l", "l", "o">>, is_final |-> TRUE]>>,
      <<[text |-> <<"<", "e", "n", "d", ">">>, is_final |-> TRUE]>> }
MaxArrived == 3

NoItem == [id |-> 0, text |-> <<>>, backspace_count |-> 0]

\* Nothing received; the worker's queue empty, the worker waiting in get().
\*   arrived  the batches _listen has handled, in order
\*   nonfinal self._nonfinal_typed_text
\*   emitted  the on_text calls raised, in order
\*   sig      transcription_text signals queued for the GUI thread
\*   q        _TypingWorker._queue
\*   cur, pos the item the worker is typing and how far it is
\*   out      the characters typed
TypInit ==
    [arrived |-> <<>>, nonfinal |-> <<>>, emitted |-> <<>>, sig |-> <<>>,
     q |-> <<>>, cur |-> NoItem, pos |-> 0, out |-> <<>>]

\* queue.Queue.get() taking the newest item.
queue_get_last(q) == [item |-> q[Len(q)], rest |-> SubSeq(q, 1, Len(q) - 1)]

\* queue.Queue.get(), typer.py line 307: the oldest item.
queue_get(q) == [item |-> Head(q), rest |-> Tail(q)]

\* _listen, lines 233-251, for one response with tokens: _process_tokens
\* raises on_text, which emits transcription_text (app.py line 255).
ListenBatch(tokens) ==
    /\ Len(typ.arrived) < MaxArrived
    /\ LET r == process_tokens(tokens, typ.nonfinal)
           m == [id |-> Len(typ.emitted) + 1, text |-> r.text,
                 backspace_count |-> r.backspace_count]
       IN  /\ typ' = [typ EXCEPT !.arrived = Append(@, tokens),
                                 !.nonfinal = r.nonfinal,
                                 !.emitted = IF r.emit THEN Append(@, m) ELSE @,
                                 !.sig = IF r.emit THEN Append(@, m) ELSE @]
           /\ calls' = IF r.emit THEN <<"on_text">> ELSE <<>>
    /\ UNCHANGED <<py, taps, rec, phys, toggle_cfg, ptt_cfg, current_keys, toggle_seq, ptt_seq,
                   toggle_combo_active, ptt_combo_active, now, hist, backend,
                   toggle_shortcut, ptt_shortcut, captured, lisVars,
                   sessVars, appVars, tokVars>>

\* _on_transcription_text, lines 441-469, for the oldest signal, then
\* enqueue_text (typer.py lines 354-366): nothing is queued while the
\* window is focused, in another typing mode, or for an empty text.
DeliverText ==
    /\ typ.sig # <<>>
    /\ LET m == Head(typ.sig)
           typed == ~window_active /\ typing_mode = "realtime" /\ m.text # <<>>
       IN  /\ typ' = [typ EXCEPT !.sig = Tail(@),
                                 !.q = IF typed THEN Append(@, m) ELSE @]
           /\ calls' = IF typed THEN <<"enqueue_text">> ELSE <<>>
    /\ UNCHANGED <<py, taps, rec, phys, toggle_cfg, ptt_cfg, current_keys, toggle_seq, ptt_seq,
                   toggle_combo_active, ptt_combo_active, now, hist, backend,
                   toggle_shortcut, ptt_shortcut, captured, lisVars,
                   sessVars, appVars, tokVars>>

\* _TypingWorker._run, lines 305-309: the worker, typing nothing, takes an
\* item from the queue.
WorkerGet ==
    /\ typ.cur = NoItem
    /\ typ.q # <<>>
    /\ LET g == queue_get(typ.q)
       IN  typ' = [typ EXCEPT !.cur = g.item, !.q = g.rest, !.pos = 0]
    /\ calls' = <<>>
    /\ UNCHANGED <<py, taps, rec, phys, toggle_cfg, ptt_cfg, current_keys, toggle_seq, ptt_seq,
                   toggle_combo_active, ptt_combo_active, now, hist, backend,
                   toggle_shortcut, ptt_shortcut, captured, lisVars,
                   sessVars, appVars, tokVars>>

\* _TypingWorker._run, lines 310-311: type_text types the next character
\* of the item; after the last one the worker is back at get().
WorkerType ==
    /\ typ.cur # NoItem
    /\ LET k == typ.pos + 1
           last == k = Len(typ.cur.text)
       IN  typ' = [typ EXCEPT !.out = Append(@, [id |-> typ.cur.id, pos |-> k]),
                              !.pos = IF last THEN 0 ELSE k,
                              !.cur = IF last THEN NoItem ELSE @]
    /\ calls' = <<>>
    /\ UNCHANGED <<py, taps, rec, phys, toggle_cfg, ptt_cfg, current_keys, toggle_seq, ptt_seq,
                   toggle_combo_active, ptt_combo_active, now, hist, backend,
                   toggle_shortcut, ptt_shortcut, captured, lisVars,
                   sessVars, appVars, tokVars>>

\* _PynputHotkeyListener.__init__ (lines 510-524): the recognition state.
PyInit ==
    [current_keys |-> {}, toggle_seq |-> SeqReset, ptt_seq |-> SeqReset,
     toggle_combo_active |-> FALSE, ptt_combo_active |-> FALSE, calls |-> <<>>]

\* No press of the double-tap key yet: n presses in a row, each within the
\* window of the one before, the fires among them, the time of the last.
TapsInit == [n |-> 0, fires |-> 0, last |-> -1]

\* Nothing fed to the pynput listener, no tap counted, the recorder and
\* the typing worker as constructed.
AuxIdle ==
    /\ py = PyInit
    /\ taps = TapsInit
    /\ rec = RecInit
    /\ typ = TypInit
    /\ phys = {}

\* The listener as constructed, before _setup_hotkeys: both bindings empty.
HotkeysUnset ==
    /\ backend = "evdev"
    /\ toggle_shortcut = <<>>
    /\ ptt_shortcut = <<>>
    /\ captured = NoCapture
    /\ toggle_cfg = ShortcutConfig({}, <<>>)
    /\ ptt_cfg = ShortcutConfig({}, <<>>)

\* The listener with its bindings parsed from the configured strings.
InitKeys ==
    /\ backend = "evdev"
    /\ toggle_shortcut \in ShortcutStrings
    /\ ptt_shortcut \in ShortcutStrings
    /\ captured = NoCapture
    /\ toggle_cfg = parse_shortcut_evdev(toggle_shortcut)
    /\ ptt_cfg = parse_shortcut_evdev(ptt_shortcut)
    /\ KeysIdle
    /\ calls = <<>>
    /\ api_key = "key"
    /\ SessIdle
    /\ AppIdle
    /\ TokIdle
    /\ AuxIdle

NextKeys ==
    \/ \E raw \in EventCodes : KeyDown(raw)
    \/ \E raw \in EventCodes : KeyUp(raw)
    \/ Tick

SpecKeys == InitKeys /\ [][NextKeys]_vars

\* The transcriber and the application after construction, with or without
\* a key configured; the listener idle.
\* The key is changed in the settings while no session thread is alive.
InitSess ==
    /\ HotkeysUnset
    /\ KeysIdle
    /\ calls = <<>>
    /\ api_key \in {"", "key"}
    /\ SessIdle
    /\ AppIdle
    /\ TokIdle
    /\ AuxIdle

NextSess ==
    \/ StartEnter
    \/ StartAlive
    \/ StartJoin
    \/ StartJoinReturns
    \/ StartJoinTimesOut
    \/ StartLaunch
    \/ \E b \in BOOLEAN : CallStop(b)
    \/ StopCheck
    \/ StopSched
    \/ StopBlk
    \/ StopJoin
    \/ StopJoinReturns
    \/ StopJoinTimesOut
    \/ SendAudioCheck
    \/ SendAudioSend
    \/ \E i \in Sessions : ThreadRun(i)
    \/ \E i \in Sessions : LoopStart(i)
    \/ \E i \in Sessions : ConnectOk(i)
    \/ \E i \in Sessions : ConnectFail(i)
    \/ \E i \in Sessions : SendConfig(i)
    \/ \E i \in Sessions : LoopRun(i)
    \/ \E i \in Sessions : \E msg \in Responses({<<>>}) : Recv(i, msg)
    \/ \E i \in Sessions : ListenEnds(i)
    \/ \E i \in Sessions : SessionExit(i)
    \/ \E i \in Sessions : FinRunning(i)
    \/ \E i \in Sessions : FinWs(i)
    \/ \E i \in Sessions : FinClose(i)
    \/ \E i \in Sessions : FinLoop(i)
    \/ \E i \in Sessions : FinThread(i)
    \/ \E k \in {"", "key"} : (\A i \in Sessions : ~Alive(i)) /\ OnSaveKey(k)
    \/ AppStartRecording
    \/ AppRecorderStart

SpecSess == InitSess /\ [][NextSess]_vars

\* Session 1 streaming: started from _start_recording with a key, connected,
\* the configuration sent, the recorder on, nothing received yet.
InitTok ==
    /\ HotkeysUnset
    /\ KeysIdle
    /\ calls = <<>>
    /\ api_key = "key"
    /\ running = TRUE
    /\ ws = 1
    /\ loop = 1
    /\ thread = 1
    /\ tpc = [i \in Sessions |-> IF i = 1 THEN "listening" ELSE "unborn"]
    /\ lst = [i \in Sessions |-> IF i = 1 THEN "running" ELSE "none"]
    /\ wsst = [i \in Sessions |-> IF i = 1 THEN "open" ELSE "none"]
    /\ lq = [i \in Sessions |-> <<>>]
    /\ wire = [i \in Sessions |-> IF i = 1 THEN <<"config">> ELSE <<>>]
    /\ gui = GuiIdle("start")
    /\ aud = [pc |-> "idle", n |-> 0, early |-> FALSE]
    /\ config_key = "key"
    /\ recording = TRUE
    /\ recorder_on = TRUE
    /\ window_active \in BOOLEAN
    /\ typing_mode \in TypingModes
    /\ timers = 0
    /\ TokIdle
    /\ AuxIdle

NextTok ==
    \/ \E msg \in Responses(TokenBatches) : Recv(1, msg)
    \/ OnTranscriptionText
    \/ FocusChange
    \/ \E m \in TypingModes : SetTypingMode(m)

SpecTok == InitTok /\ [][NextTok]_vars

\* The transcriber after construction with a key, start() and the
\* non-blocking stop() called in any order, against a server that may send
\* any frame, close the connection, or stay silent.
ConnBatches == {<<>>, <<[text |-> <<"h", "e", "l">>, is_final |-> TRUE]>>}

InitConn ==
    /\ HotkeysUnset
    /\ KeysIdle
    /\ calls = <<>>
    /\ api_key = "key"
    /\ SessIdle
    /\ AppIdle
    /\ TokIdle
    /\ AuxIdle

NextConn ==
    \/ StartEnter
    \/ StartAlive
    \/ StartJoin
    \/ StartJoinReturns
    \/ StartJoinTimesOut
    \/ StartLaunch
    \/ CallStop(FALSE)
    \/ StopCheck
    \/ StopSched
    \/ StopBlk
    \/ \E i \in Sessions : ThreadRun(i)
    \/ \E i \in Sessions : LoopStart(i)
    \/ \E i \in Sessions : ConnectOk(i)
    \/ \E i \in Sessions : ConnectFail(i)
    \/ \E i \in Sessions : SendConfig(i)
    \/ \E i \in Sessions : LoopRun(i)
    \/ \E i \in Sessions : \E msg \in Frames(ConnBatches) : Recv(i, msg)
    \/ \E i \in Sessions : \E clean \in BOOLEAN : ServerClose(i, clean)
    \/ \E i \in Sessions : ListenLost(i)
    \/ \E i \in Sessions : ListenEnds(i)
    \/ \E i \in Sessions : SessionExit(i)
    \/ \E i \in Sessions : FinRunning(i)
    \/ \E i \in Sessions : FinWs(i)
    \/ \E i \in Sessions : FinClose(i)
    \/ \E i \in Sessions : FinLoop(i)
    \/ \E i \in Sessions : FinThread(i)
    \/ OnTranscriptionText

SpecConn == InitConn /\ [][NextConn]_vars

\* Strings a configuration file may hold for the toggle binding, over
\* these pieces: generic modifiers, an angle-bracket name that only the
\* last lookup knows, a character, one in upper case with a blank before
\* it, a text that is no token, the separators and the legacy prefix.
MaxPieces == 3
Pieces == {"<ctrl>", "<super>", "<esc>", "a", " A", "zz", "+", ",", "2x"}
Strings == UNION {[1..n -> Pieces] : n \in 0..MaxPieces}

\* The key events the listener in use is fed with.
RawKeys(b) ==
    IF b = "evdev" THEN {"KEY_LEFTCTRL", "KEY_RIGHTMETA", "KEY_A"}
    ELSE {"Key.ctrl_l", "Key.cmd_r", "a"}

\* Either listener as constructed, the toggle string of the configuration
\* being any string and the push-to-talk string empty; the bindings are
\* parsed by _setup_hotkeys, the toggle string is replaced by what the
\* capture field commits, keys go down and up.
InitParse ==
    /\ backend \in Backends
    /\ toggle_shortcut \in Strings
    /\ ptt_shortcut = <<>>
    /\ captured = NoCapture
    /\ toggle_cfg = ShortcutConfig({}, <<>>)
    /\ ptt_cfg = ShortcutConfig({}, <<>>)
    /\ KeysIdle
    /\ calls = <<>>
    /\ api_key = "key"
    /\ SessIdle
    /\ AppIdle
    /\ TokIdle
    /\ AuxIdle

NextParse ==
    \/ SetupHotkeys
    \/ \E keys \in Chords : CommitCombo(keys)
    \/ \E first_keys, second_keys \in Chords : CommitSequential(first_keys, second_keys)
    \/ \E b \in Backends : \E raw \in RawKeys(b) : backend = b /\ KeyDown(raw)
    \/ \E b \in Backends : \E raw \in RawKeys(b) : backend = b /\ KeyUp(raw)

SpecParse == InitParse /\ [][NextParse]_vars

\* The generic modifier tokens with the key events of their left and their
\* right physical key, for the evdev listener (_evdev_token_map lists the
\* two codes of each) and for the pynput listener (keyboard.Key).
EvdevVariants ==
    { <<"<ctrl>", "KEY_LEFTCTRL", "KEY_RIGHTCTRL">>,
      <<"<shift>", "KEY_LEFTSHIFT", "KEY_RIGHTSHIFT">>,
      <<"<alt>", "KEY_LEFTALT", "KEY_RIGHTALT">>,
      <<"<super>", "KEY_LEFTMETA", "KEY_RIGHTMETA">>,
      <<"<cmd>", "KEY_LEFTMETA", "KEY_RIGHTMETA">> }

PynputVariants ==
    { <<"<ctrl>", "Key.ctrl_l", "Key.ctrl_r">>,
      <<"<shift>", "Key.shift_l", "Key.shift_r">>,
      <<"<alt>", "Key.alt_l", "Key.alt_r">>,
      <<"<super>", "Key.cmd", "Key.cmd_r">>,
      <<"<cmd>", "Key.cmd", "Key.cmd_r">> }

Variants(b) == IF b = "evdev" THEN EvdevVariants ELSE PynputVariants

\* The key events of the modifier keys, and of one character key.
ModifierKeys(b) ==
    {v[2] : v \in Variants(b)} \cup {v[3] : v \in Variants(b)}
       \cup (IF b = "evdev" THEN {"KEY_A"} ELSE {"Key.alt_gr", "a"})

\* Either listener as constructed, the toggle string of the configuration
\* naming one generic modifier; _setup_hotkeys parses it, and modifier keys
\* of either side go down and up.
InitNorm ==
    /\ backend \in Backends
    /\ toggle_shortcut \in {<<v[1]>> : v \in EvdevVariants}
    /\ ptt_shortcut = <<>>
    /\ captured = NoCapture
    /\ toggle_cfg = ShortcutConfig({}, <<>>)
    /\ ptt_cfg = ShortcutConfig({}, <<>>)
    /\ KeysIdle
    /\ calls = <<>>
    /\ api_key = "key"
    /\ SessIdle
    /\ AppIdle
    /\ TokIdle
    /\ AuxIdle

NextNorm ==
    \/ SetupHotkeys
    \/ \E b \in Backends : \E raw \in ModifierKeys(b) : backend = b /\ KeyDown(raw)
    \/ \E b \in Backends : \E raw \in ModifierKeys(b) : backend = b /\ KeyUp(raw)

SpecNorm == InitNorm /\ [][NextNorm]_vars

\* A key that is up goes down, _run, lines 404-408 (a repeat, event.value
\* 2, is not dispatched); phys keeps the keys that are physically down.
PhysDown(raw) ==
    /\ raw \notin phys
    /\ OnKeyDown(raw)
    /\ phys' = phys \cup {raw}
    /\ UNCHANGED <<py, taps, rec, typ>>

\* A key that is down goes up, _run, lines 409-411.
PhysUp(raw) ==
    /\ raw \in phys
    /\ OnKeyUp(raw)
    /\ phys' = phys \ {raw}
    /\ UNCHANGED <<py, taps, rec, typ>>

\* The Ctrl and Alt keys of a keyboard, and one character key.
PhysKeys(b) ==
    IF b = "evdev"
    THEN {"KEY_LEFTCTRL", "KEY_RIGHTCTRL", "KEY_LEFTALT", "KEY_RIGHTALT", "KEY_A"}
    ELSE {"Key.ctrl_l", "Key.ctrl_r", "Key.alt_l", "Key.alt_r", "Key.alt_gr", "a"}

\* The listener of SpecNorm fed by a keyboard: a key goes down only when
\* it is up, and up only when it is down.
NextPhys ==
    \/ SetupHotkeys
    \/ \E b \in Backends : \E raw \in PhysKeys(b) : backend = b /\ PhysDown(raw)
    \/ \E b \in Backends : \E raw \in PhysKeys(b) : backend = b /\ PhysUp(raw)

SpecPhys == InitNorm /\ [][NextPhys]_vars

\* The evdev listener as constructed: HotkeyManager chose it because
\* _evdev_has_devices() could open a keyboard, other devices may refuse.
\* start() and stop() are called in any order, the thread runs, keyboards
\* are unplugged.
InitListen ==
    /\ HotkeysUnset
    /\ current_keys = {}
    /\ toggle_seq = SeqReset
    /\ ptt_seq = SeqReset
    /\ toggle_combo_active = FALSE
    /\ ptt_combo_active = FALSE
    /\ now = 0
    /\ hist = [toggle |-> HistInit, ptt |-> HistInit, example |-> ExampleInit]
    /\ ListenIdle
    /\ dev_state \in [Devices -> {"ok", "denied"}]
    /\ \E d \in Devices : dev_state[d] = "ok"
    /\ calls = <<>>
    /\ api_key = "key"
    /\ SessIdle
    /\ AppIdle
    /\ TokIdle
    /\ AuxIdle

NextListen ==
    \/ HkStart
    \/ HkStop
    \/ \E timed_out \in BOOLEAN : HkStopFinish(timed_out)
    \/ HkStartRest
    \/ \E i \in Listeners : ListenerOpen(i)
    \/ \E i \in Listeners : ListenerLoop(i)
    \/ \E i \in Listeners : ListenerPipe(i)
    \/ \E i \in Listeners : \E d \in Devices : ListenerReadFails(i, d)
    \/ \E i \in Listeners : ListenerTimeout(i)
    \/ \E d \in Devices : DeviceGone(d)
    \/ \E i \in Listeners : \E d \in Devices : Finalize(i, d)

SpecListen == InitListen /\ [][NextListen]_vars

\* The steps of the task of session i (_run_loop, _session, _listen), the
\* callbacks on its event loop, and the steps of the calling thread once it
\* is inside start() or stop(): the scheduler lets each of them run in the
\* end. A connection attempt ends, well or badly. What the server sends,
\* and whether it closes, is up to the server; when start() and stop() are
\* called is up to the user.
TaskSteps(i) ==
    \/ ThreadRun(i) \/ LoopStart(i) \/ ConnectOk(i) \/ ConnectFail(i)
    \/ SendConfig(i) \/ ListenLost(i) \/ ListenEnds(i)
    \/ SessionExit(i) \/ FinRunning(i) \/ FinWs(i) \/ FinClose(i)
    \/ FinLoop(i) \/ FinThread(i)

CallerSteps ==
    \/ StartAlive \/ StartJoin \/ StartJoinReturns \/ StartJoinTimesOut
    \/ StartLaunch \/ StopCheck \/ StopSched \/ StopBlk

SpecConnFair ==
    /\ InitConn
    /\ [][NextConn]_vars
    /\ \A i \in Sessions : WF_vars(TaskSteps(i)) /\ WF_vars(LoopRun(i))
    /\ WF_vars(CallerSteps)

\* The evdev listener with a double-tap toggle binding and no push-to-talk
\* binding; keys go down and up, the clock advances.
InitTaps ==
    /\ backend = "evdev"
    /\ toggle_shortcut = <<"a", ",", "a">>
    /\ ptt_shortcut = <<>>
    /\ captured = NoCapture
    /\ toggle_cfg = parse_shortcut_evdev(toggle_shortcut)
    /\ ptt_cfg = parse_shortcut_evdev(ptt_shortcut)
    /\ KeysIdle
    /\ calls = <<>>
    /\ api_key = "key"
    /\ SessIdle
    /\ AppIdle
    /\ TokIdle
    /\ AuxIdle

NextTaps ==
    \/ \E raw \in EventCodes : TapDown(raw)
    \/ \E raw \in EventCodes : KeyUp(raw)
    \/ Tick

SpecTaps == InitTaps /\ [][NextTaps]_vars

\* The two listeners after set_shortcuts with the same two parsed
\* bindings; every event goes to both.
NextTwin ==
    \/ \E raw \in EventCodes : TwinDown(raw)
    \/ \E raw \in EventCodes : TwinUp(raw)
    \/ Tick

SpecTwin == InitKeys /\ [][NextTwin]_vars

\* Everything but the recorder and the typing worker as constructed.
RestIdle ==
    /\ HotkeysUnset
    /\ KeysIdle
    /\ calls = <<>>
    /\ api_key = "key"
    /\ SessIdle
    /\ AppIdle
    /\ TokIdle
    /\ py = PyInit
    /\ taps = TapsInit

\* The recorder as constructed; the preview and the recording are started
\* and stopped in any order on devices of any default rate, PortAudio
\* opening them at their own rate, at TARGET_RATE only, or not at all, and
\* the stream delivers blocks.
InitAudio ==
    /\ RestIdle
    /\ rec = RecInit
    /\ typ = TypInit
    /\ phys = {}

NextAudio ==
    \/ \E native \in DeviceRates : \E openable \in {{native, TARGET_RATE}, {TARGET_RATE}, {}} :
          RecStartPreview(native, openable)
    \/ RecStopPreview
    \/ \E native \in DeviceRates : \E openable \in {{native, TARGET_RATE}, {TARGET_RATE}, {}} :
          RecStart(native, openable)
    \/ RecStop
    \/ AudioCallback

SpecAudio == InitAudio /\ [][NextAudio]_vars

\* A session streaming, the window focused or not: batches arrive, the GUI
\* thread handles the signals, the worker types.
InitType ==
    /\ HotkeysUnset
    /\ KeysIdle
    /\ calls = <<>>
    /\ api_key = "key"
    /\ SessIdle
    /\ config_key = "key"
    /\ recording = TRUE
    /\ recorder_on = TRUE
    /\ window_active \in BOOLEAN
    /\ typing_mode = "realtime"
    /\ timers = 0
    /\ TokIdle
    /\ py = PyInit
    /\ taps = TapsInit
    /\ rec = RecInit
    /\ typ = TypInit
    /\ phys = {}

NextType ==
    \/ \E tokens \in TypeBatches : ListenBatch(tokens)
    \/ DeliverText
    \/ WorkerGet
    \/ WorkerType
    \/ FocusChange

SpecType == InitType /\ [][NextType]_vars

\* The application after HotkeyManager() chose the evdev listener and
\* before _setup_hotkeys: bindings unset, the strings of the configuration
\* file loaded, both keyboards readable. The application then configures
\* and starts the listener, and restarts it when a save changes a shortcut;
\* the listener thread reads and dispatches key events meanwhile.
SaveStrings == { <<"a", ",", "b">>, <<"a", ",", "a">> }

InitSave ==
    /\ backend = "evdev"
    /\ toggle_shortcut \in SaveStrings
    /\ ptt_shortcut \in SaveStrings
    /\ captured = NoCapture
    /\ toggle_cfg = ShortcutConfig({}, <<>>)
    /\ ptt_cfg = ShortcutConfig({}, <<>>)
    /\ KeysIdle
    /\ calls = <<>>
    /\ api_key = "key"
    /\ SessIdle
    /\ AppIdle
    /\ TokIdle
    /\ AuxIdle

NextSave ==
    \/ AppSetShortcuts
    \/ AppStart
    \/ \E toggle, ptt \in SaveStrings : OnSave(toggle, ptt)
    \/ \E timed_out \in BOOLEAN : HkStopFinish(timed_out)
    \/ HkStartRest
    \/ \E i \in Listeners : ListenerOpen(i)
    \/ \E i \in Listeners : ListenerLoop(i)
    \/ \E i \in Listeners : ListenerPipe(i)
    \/ \E i \in Listeners : ListenerTimeout(i)
    \/ \E i \in Listeners : ListenerRead(i)
    \/ \E raw \in SaveCodes : DispatchDown(raw)
    \/ \E raw \in SaveCodes : DispatchUp(raw)
    \/ \E i \in Listeners : ListenerReadDone(i)

SpecSave == InitSave /\ [][NextSave]_vars

\* The application after construction with a key, its window shown and
\* the microphone preview on (app.py line 300): recordings are started and
\* stopped by toggle and push-to-talk events, the grace timer fires, the
\* capture thread hands over a block, the connection is made or fails.
InitApp ==
    /\ HotkeysUnset
    /\ KeysIdle
    /\ calls = <<>>
    /\ api_key = "key"
    /\ SessIdle
    /\ AppIdle
    /\ TokIdle
    /\ py = PyInit
    /\ taps = TapsInit
    /\ rec = [RecInit EXCEPT !.previewing = TRUE, !.stream = TRUE]
    /\ typ = TypInit
    /\ phys = {}

NextApp ==
    \/ AppStartRecording
    \/ StartEnter
    \/ StartAlive
    \/ StartJoin
    \/ StartJoinReturns
    \/ StartJoinTimesOut
    \/ StartLaunch
    \/ AppRecorderStart
    \/ AppStopRecording
    \/ AppFinalizeCheck
    \/ AppFinalizeSend
    \/ AppEofCheck
    \/ AppEofSend
    \/ AppFinishStop
    \/ StopCheck
    \/ StopSched
    \/ StopBlk
    \/ AppAudioCallback
    \/ AppOnAudioChunk
    \/ SendAudioSend
    \/ \E i \in Sessions : ThreadRun(i)
    \/ \E i \in Sessions : LoopStart(i)
    \/ \E i \in Sessions : ConnectOk(i)
    \/ \E i \in Sessions : ConnectFail(i)
    \/ \E i \in Sessions : SendConfig(i)
    \/ \E i \in Sessions : LoopRun(i)
    \/ \E i \in Sessions : ListenEnds(i)
    \/ \E i \in Sessions : SessionExit(i)
    \/ \E i \in Sessions : FinRunning(i)
    \/ \E i \in Sessions : FinWs(i)
    \/ \E i \in Sessions : FinClose(i)
    \/ \E i \in Sessions : FinLoop(i)
    \/ \E i \in Sessions : FinThread(i)

SpecApp == InitApp /\ [][NextApp]_vars

\* Session 1 streaming, as in SpecTok, the server sending a provisional
\* 'hel' now and then: the session is stopped without blocking and
\* started again, as a toggle after the grace timer does.
RestartBatches == {<< [text |-> <<"h", "e", "l">>, is_final |-> FALSE] >>}

NextRestart ==
    \/ \E i \in Sessions : \E msg \in Responses(RestartBatches) : Recv(i, msg)
    \/ OnTranscriptionText
    \/ CallStop(FALSE)
    \/ StopCheck
    \/ StopSched
    \/ StopBlk
    \/ StartEnter
    \/ StartAlive
    \/ StartJoin
    \/ StartJoinReturns
    \/ StartJoinTimesOut
    \/ StartLaunch
    \/ \E i \in Sessions : ThreadRun(i)
    \/ \E i \in Sessions : LoopStart(i)
    \/ \E i \in Sessions : ConnectOk(i)
    \/ \E i \in Sessions : ConnectFail(i)
    \/ \E i \in Sessions : SendConfig(i)
    \/ \E i \in Sessions : LoopRun(i)
    \/ \E i \in Sessions : ListenEnds(i)
    \/ \E i \in Sessions : SessionExit(i)
    \/ \E i \in Sessions : FinRunning(i)
    \/ \E i \in Sessions : FinWs(i)
    \/ \E i \in Sessions : FinClose(i)
    \/ \E i \in Sessions : FinLoop(i)
    \/ \E i \in Sessions : FinThread(i)

SpecRestart == InitTok /\ [][NextRestart]_vars

(***************************************************************************)
(* Claims about the recognition step (SpecKeys)                            *)
(***************************************************************************)

CtrlShiftV == ShortcutConfig({"KEY_LEFTCTRL", "KEY_LEFTSHIFT", "KEY_V"}, <<>>)

\* C1: with a combo toggle binding K, on_toggle is raised by a key-down
\* exactly when K is a subset of the held keys (the pressed key included) and
\* the latch was clear, and never by a key-up; a fire that is not the first
\* comes after a key-up of a key of K since the previous fire; the stream
\* ctrl-down, shift-down, v-down, v-up, shift-up, ctrl-up on "<ctrl>+<shift>+v"
\* raises on_toggle once, at v-down.
C1_ChordSubset ==
    /\ [][is_combo(toggle_cfg) /\ ~is_sequential(toggle_cfg) =>
            /\ \A raw \in EventCodes : KeyDown(raw) =>
                  /\ Raised("on_toggle", calls') <=>
                        (toggle_cfg.combo \subseteq current_keys' /\ ~toggle_combo_active)
                  /\ (Raised("on_toggle", calls') /\ hist.toggle.fired)
                        => hist.toggle.up_since
            /\ \A raw \in EventCodes : KeyUp(raw) => ~Raised("on_toggle", calls')
        ]_vars
    /\ []((toggle_cfg = CtrlShiftV /\ hist.example.pos = Len(ExampleStream))
            => hist.example.fires = {3})

\* C1 witness: the example stream has run to its end on "<ctrl>+<shift>+v".
C1_Witness ==
    /\ toggle_cfg = CtrlShiftV
    /\ hist.example.pos = Len(ExampleStream)
    /\ hist.example.fires = {3}

C3_ArmedAfterRelease ==
    /\ (is_sequential(toggle_cfg) /\ Raised("on_toggle", calls)) => hist.toggle.released
    /\ (is_sequential(ptt_cfg) /\ Raised("on_ptt_press", calls)) => hist.ptt.released

\* C4: on_ptt_press and on_ptt_release alternate, starting with a press:
\* at every moment the presses raised exceed the releases raised by 0 or 1,
\* a press is raised only with none open and a release only with one open.
C4_PttAlternates ==
    /\ hist.ptt.open \in {0, 1}
    /\ Raised("on_ptt_press", calls) => hist.ptt.open = 1
    /\ Raised("on_ptt_release", calls) => hist.ptt.open = 0

\* C4 witness: a release has just closed a hold of a sequential binding.
C4_Witness ==
    /\ is_sequential(ptt_cfg)
    /\ Raised("on_ptt_release", calls)
    /\ hist.ptt.open = 0

\* The keys a binding names.
cfg_keys(cfg) == cfg.combo \cup {cfg.seq_keys[k] : k \in 1..Len(cfg.seq_keys)}

\* C26: the two latches are independent. A key-up of a key the
\* push-to-talk binding does not name leaves the push-to-talk latch as it is
\* and raises no on_ptt_release; a key-up of a key that is not in the toggle
\* combo leaves the toggle latch as it is; and a key event, whatever it does
\* to one binding, leaves the latch and the armed state of a binding that
\* does not name the key unchanged and raises none of its callbacks.
C26_LatchesIndependent ==
    [][\A raw \in EventCodes :
          LET code == normalize_key(raw)
              ptt_kept == /\ ptt_combo_active' = ptt_combo_active
                          /\ ptt_seq' = ptt_seq
                          /\ ~Raised("on_ptt_press", calls')
                          /\ ~Raised("on_ptt_release", calls')
              toggle_kept == /\ toggle_combo_active' = toggle_combo_active
                             /\ toggle_seq' = toggle_seq
                             /\ ~Raised("on_toggle", calls')
          IN  /\ code \in cfg_keys(ptt_cfg) \/ ptt_kept
                 \/ ~(KeyDown(raw) \/ KeyUp(raw))
              /\ code \in cfg_keys(toggle_cfg) \/ toggle_kept
                 \/ ~(KeyDown(raw) \/ KeyUp(raw))
              /\ code \in toggle_cfg.combo
                 \/ toggle_combo_active' = toggle_combo_active
                 \/ ~KeyUp(raw)
      ]_vars

\* C26 witness: a push-to-talk hold of a sequential binding was just
\* released by its own key while the toggle combo is held with its latch set.
C26_Witness ==
    /\ is_combo(toggle_cfg) /\ toggle_combo_active
    /\ toggle_cfg.combo \subseteq current_keys
    /\ is_sequential(ptt_cfg)
    /\ Raised("on_ptt_release", calls)

Hel == <<"h", "e", "l">>
Hello == <<"h", "e", "l", "l", "o">>
Wor == <<" ", "w", "o", "r">>

\* C5 (as stated): after every batch handled, the instructions raised so
\* far, applied to an empty buffer, give all final text received so far
\* followed by the non-final text of the most recent batch.
C5_CorrectionLaw == tok.vbuf = tok.finals \o tok.last_nonfinal

\* C5 (amended): after every batch handled, the instructions raised so far,
\* applied to an empty buffer, give all final text received so far followed
\* by the non-final text of the most recent batch that had any text left
\* after the control markers were stripped.
C5_CorrectionLawTextBatches == tok.vbuf = tok.finals \o tok.text_nonfinal

\* The example: [hel/non-final] then [hello/final, ' wor'/non-final] leaves
\* 'hello wor', the second instruction being (erase 3, 'hello wor').
C5_Witness ==
    /\ tok.batches = 2
    /\ tok.finals = Hello
    /\ tok.last_nonfinal = Wor
    /\ tok.vbuf = Hello \o Wor
    /\ text_q = << [text |-> Hel, backspace_count |-> 0],
                  [text |-> Hello \o Wor, backspace_count |-> 3] >>

C7_EmptyCredential ==
    [][ /\ (StartEnter /\ ~running /\ api_key = "") =>
              /\ calls' = <<"on_error">>
              /\ gui'.pc \in {"idle", "app_recorder"}
              /\ UNCHANGED <<running, ws, loop, thread, tpc, lst, wsst, wire>>
              /\ (\A i \in Sessions : tpc[i] = "unborn") =>
                      (ws' = None /\ loop' = None /\ thread' = None)
        /\ (AppStartRecording /\ config_key = "") =>
              /\ ~recording' /\ ~recorder_on'
              /\ gui'.pc = "idle"
              /\ ~Raised("on_error", calls')
              /\ UNCHANGED <<running, ws, loop, thread, tpc, lst, wsst, wire>>
      ]_vars

\* start() has just returned from the empty-credential branch, no session
\* ever started.
C7_Witness ==
    /\ api_key = ""
    /\ calls = <<"on_error">>
    /\ gui.pc = "idle" /\ gui.prev = "start"
    /\ ~running /\ ws = None /\ loop = None /\ thread = None
    /\ \A i \in Sessions : tpc[i] = "unborn"

\* C8: a chunk passed to send_audio while the session is not streaming
\* (before start, before the configuration is sent, after stop) causes no
\* frame to be sent.
C8_NoFrameUnlessStreaming ==
    \A i \in Sessions : \A k \in 1..Len(wire[i]) : wire[i][k] # "audio_early"

\* C9: a stop() that comes right after another stop() raises nothing.
C9_SecondStopRaisesNothing ==
    [][(gui.prev = "stop" /\ gui.pc \in {"stop_sched", "stop_join"})
          => ~Raised("stop raises", calls')]_vars

\* C10: start() launches no new thread while a session thread is alive.
C10_OneLiveSession ==
    [][StartLaunch => \A i \in Sessions : ~Alive(i)]_vars

(***************************************************************************)
(* Claims about the connection and the frames of the server (SpecConn)     *)
(***************************************************************************)

\* C11: when the listening session finds its connection closed by the other
\* side, on_error is raised if _running is still true, and is not raised
\* if stop() has already set _running false.
C11_ClosureReported ==
    [][\A i \in Sessions :
          ListenLost(i) => (Raised("on_error", calls') <=> running)]_vars

\* C12: a response that carries an error code, received while the session
\* runs, raises on_error and leaves the session as it is: still listening
\* on an open connection, _running true, loop running; a token batch
\* received after it is still handled, and emitted when it has text.
C12_ErrorCodeSurfacedSessionGoesOn ==
    [][\A i \in Sessions : \A msg \in Frames(ConnBatches) :
          (running /\ Recv(i, msg)) =>
             /\ (msg.json = "object" /\ msg.error_code) =>
                   /\ Raised("on_error", calls')
                   /\ tpc'[i] = "listening" /\ wsst'[i] = "open"
                   /\ running' /\ lst'[i] = "running"
                   /\ nonfinal_typed_text' = nonfinal_typed_text
             /\ ("error" \in tok.notes /\ msg.json = "object" /\ ~msg.error_code
                    /\ msg.tokens # <<>>) =>
                   /\ tok'.batches = tok.batches + 1
                   /\ process_tokens(msg.tokens, nonfinal_typed_text).emit
                         => Raised("on_text", calls')
      ]_vars

\* The only session ever started has reported an error code, and has just
\* emitted the text of a later batch.
C12_Witness ==
    /\ tpc[1] = "listening" /\ tpc[2] = "unborn"
    /\ "error" \in tok.notes
    /\ "raise" \notin tok.notes
    /\ Raised("on_text", calls)
    /\ tok.batches >= 1

\* C13: a frame that is not valid JSON, or is valid JSON but not an object,
\* received while the session runs, raises on_error and leaves the
\* connection open and the session listening.
C13_MalformedSurfacedSessionGoesOn ==
    [][\A i \in Sessions : \A msg \in Frames(ConnBatches) :
          (running /\ Recv(i, msg) /\ msg.json # "object") =>
             /\ Raised("on_error", calls')
             /\ tpc'[i] = "listening" /\ wsst'[i] = "open"
      ]_vars

\* C20: once a non-blocking stop() has returned while the thread of a
\* session is alive, that thread gets to its end, with its connection
\* closed and _ws, _loop, _thread cleared by it, whatever the server does.
C20_StopUnwinds ==
    \A i \in Sessions :
        (gui.pc = "idle" /\ gui.prev = "stop" /\ Alive(i))
           ~> (tpc[i] = "dead" /\ wsst[i] # "open")

(***************************************************************************)
(* Claims about key identities and shortcut strings (SpecNorm, SpecParse)  *)
(***************************************************************************)

\* C14: in either listener, normalising a key twice gives what normalising
\* it once gives, the left and the right key of Ctrl, Shift, Alt and
\* Meta/Super normalise to one identity, and a toggle binding that names
\* the generic modifier, not latched, fires on the key-down of either.
C14_EitherVariantFires ==
    [][\A b \in Backends : \A v \in Variants(b) : \A side \in {2, 3} :
          (backend = b /\ KeyDown(v[side])) =>
             /\ backend_normalize_key(backend_normalize_key(v[side]))
                   = backend_normalize_key(v[side])
             /\ backend_normalize_key(v[2]) = backend_normalize_key(v[3])
             /\ (toggle_cfg = parse_shortcut(b, <<v[1]>>) /\ ~toggle_combo_active)
                   => Raised("on_toggle", calls')
      ]_vars

\* The chords a configuration stands for: the combo, or the two keys of a
\* sequential binding, one after the other.
cfg_chords(cfg) ==
    IF is_sequential(cfg) THEN <<{cfg.seq_keys[1]}, {cfg.seq_keys[2]}>>
    ELSE <<cfg.combo, {}>>

\* The keys of listener b for a captured chord.
chord_keys(b, keys) ==
    {parse_shortcut(b, <<key_info(keys[i])>>).combo : i \in 1..Len(keys)}

\* C15: parsing the string the capture field rendered for a chord, or for
\* a sequential pair of chords, gives a binding of exactly the captured
\* keys: the chord, or the first chord followed by the second.
C15_CaptureRoundTrip ==
    [][(SetupHotkeys /\ captured # NoCapture) =>
          cfg_chords(toggle_cfg')
             = <<UNION chord_keys(backend, captured.first),
                 UNION chord_keys(backend, captured.second)>>
      ]_vars

\* The texts the parser takes for tokens: the two halves of a string with
\* a comma, the parts between the "+" of any other string.
tokens_of(shortcut_str) ==
    LET s == normalize_shortcut_str(shortcut_str)
    IN  IF find(s, ",") # 0 THEN split1(s, ",") ELSE split(s, "+")

\* C16: set_shortcuts gives a configuration for every string, and never
\* one that holds an unresolved key; for a chord (no comma) it is the combo
\* of exactly the tokens that resolve, the unknown ones dropped; when no
\* token resolves, and for the empty string, it is the empty configuration.
C16_ParseTotal ==
    [][SetupHotkeys =>
          LET parts == tokens_of(toggle_shortcut)
              known == {resolve_token(backend, parts[k]) : k \in 1..Len(parts)}
                          \ {NoKey}
          IN  /\ NoKey \notin toggle_cfg'.combo
              /\ \A k \in 1..Len(toggle_cfg'.seq_keys) : toggle_cfg'.seq_keys[k] # NoKey
              /\ find(normalize_shortcut_str(toggle_shortcut), ",") = 0
                    => toggle_cfg' = ShortcutConfig(known, <<>>)
              /\ known = {} => is_empty(toggle_cfg')
              /\ toggle_shortcut = <<>> => is_empty(toggle_cfg')
      ]_vars

\* set_shortcuts has just parsed "zz+a" (evdev): the unknown token is
\* dropped and the binding is the key A alone.
C16_Witness ==
    /\ backend = "evdev"
    /\ toggle_shortcut = <<"zz", "+", "a">>
    /\ calls = <<"set_shortcuts">>
    /\ toggle_cfg = ShortcutConfig({"KEY_A"}, <<>>)

\* At most one of combo and seq_keys is non-empty, and seq_keys is empty
\* or a pair.
one_kind(cfg) ==
    /\ ~(cfg.combo # {} /\ cfg.seq_keys # <<>>)
    /\ Len(cfg.seq_keys) \in {0, 2}

\* C17: every configuration the parsers produce has at most one of combo
\* and seq_keys non-empty; while a binding is empty no step raises its
\* callbacks (on_toggle; on_ptt_press, on_ptt_release), sets its latch or
\* arms it, whatever keys go down and up.
C17_EmptyBindingInert ==
    [][/\ one_kind(toggle_cfg') /\ one_kind(ptt_cfg')
       /\ is_empty(toggle_cfg) =>
             /\ ~Raised("on_toggle", calls')
             /\ ~toggle_combo_active'
             /\ ~toggle_seq'.armed
       /\ is_empty(ptt_cfg) =>
             /\ ~Raised("on_ptt_press", calls')
             /\ ~Raised("on_ptt_release", calls')
             /\ ~ptt_combo_active'
             /\ ~ptt_seq'.armed
      ]_vars

\* A string in which nothing resolves was parsed to the empty binding, and
\* keys are held down with nothing raised, latched or armed.
C17_Witness ==
    /\ toggle_shortcut = <<"zz", ",", "a">>
    /\ is_empty(toggle_cfg) /\ is_empty(ptt_cfg)
    /\ Cardinality(current_keys) = 2
    /\ calls = <<>>
    /\ ~toggle_combo_active /\ ~ptt_combo_active
    /\ ~toggle_seq.armed /\ ~ptt_seq.armed

(***************************************************************************)
(* Claims about the listener's thread and its resources (SpecListen)       *)
(***************************************************************************)

\* C18: once a stop() has returned, no join having run into its timeout,
\* no listener thread is referenced, no end of any control pipe is open,
\* and every input device handle any listener thread opened is closed,
\* those of devices unplugged while it ran too.
C18_StopReleasesEverything ==
    (hk.pc = "idle" /\ hk.prev = "stop" /\ ~hk.timed_out) =>
        /\ hk_thread = None /\ stop_pipe = None
        /\ \A p \in Listeners : pipe[p].r # "open" /\ pipe[p].w # "open"
        /\ \A i \in Listeners : \A d \in Devices : handle[i][d] \in {"none", "closed"}

\* C19: when the listener thread can open none of the devices, the failure
\* reaches the caller of the engine: start() raises, or on_error is called.
C19_OpenFailureReported ==
    [][\A i \in Listeners :
          (ListenerOpen(i) /\ \A d \in Devices : dev_state[d] # "ok")
             => (Raised("start raises", calls') \/ Raised("on_error", calls'))
      ]_vars

(***************************************************************************)
(* Claims about what is written on a connection, and by whom (SpecSess)    *)
(***************************************************************************)

\* C24: on every connection the configuration message is the first client
\* frame on the wire and is there once: no frame scheduled by send_audio
\* from another thread is written before it.
C24_ConfigFirstOnce ==
    \A i \in Sessions :
        wire[i] # <<>> =>
            /\ wire[i][1] = "config"
            /\ \A k \in 2..Len(wire[i]) : wire[i][k] # "config"

\* C25: every send or close a foreign thread schedules is scheduled on the
\* event loop of the session whose connection it is for.
C25_SendOnOwningLoop ==
    \A i \in Sessions : \A k \in 1..Len(lq[i]) : lq[i][k].ws = i

(***************************************************************************)
(* Claims about the audio handed to the relay (SpecAudio)                  *)
(***************************************************************************)

\* C21: every chunk the recorder hands to the relay is at the sample rate
\* the session declares to the server in its configuration message, and the
\* recorder's target rate is that rate.
C21_ChunkAtDeclaredRate ==
    \A k \in 1..Len(rec.chunks) :
        /\ block_rate(rec.chunks[k].len, rec.chunks[k].ms) = config_message.sample_rate
        /\ TARGET_RATE = config_message.sample_rate

(***************************************************************************)
(* Claims about the order of what is typed (SpecType)                      *)
(***************************************************************************)

RECURSIVE instructions(_, _, _)
\* The instructions _process_tokens gives for the batches, one after the
\* other, numbered from n + 1, with `typed` the provisional text before.
instructions(batches, typed, n) ==
    IF batches = <<>> THEN <<>>
    ELSE LET r == process_tokens(Head(batches), typed)
         IN  IF r.emit
             THEN <<[id |-> n + 1, text |-> r.text, backspace_count |-> r.backspace_count]>>
                     \o instructions(Tail(batches), r.nonfinal, n + 1)
             ELSE instructions(Tail(batches), r.nonfinal, n)

C22_BackendsAgree ==
    /\ py.calls = calls
    /\ py.current_keys = current_keys
    /\ py.toggle_combo_active = toggle_combo_active
    /\ py.ptt_combo_active = ptt_combo_active
    /\ py.toggle_seq = toggle_seq
    /\ py.ptt_seq = ptt_seq

\* C22 witness: both listeners have just released a hold of a sequential
\* push-to-talk binding while the toggle binding of the other kind is latched.
C22_Witness ==
    /\ is_sequential(ptt_cfg) /\ is_combo(toggle_cfg)
    /\ py.calls = <<"on_ptt_release">> /\ calls = <<"on_ptt_release">>
    /\ py.toggle_combo_active /\ toggle_combo_active

(***************************************************************************)
(* Claims about the listener thread while the application stops and        *)
(* reconfigures it (SpecSave)                                              *)
(***************************************************************************)

\* A hotkey callback is among the callbacks cs.
RaisedAny(cs) ==
    Raised("on_toggle", cs) \/ Raised("on_ptt_press", cs) \/ Raised("on_ptt_release", cs)

\* C29: once the byte stop() wrote to the control pipe has woken the
\* listener thread's select, no key event the thread reads afterwards is
\* dispatched to a callback: while a thread woken by the pipe, and no other,
\* is going through the readable descriptors, no callback is raised.
C29_NoDispatchAfterWake ==
    [][\/ ~RaisedAny(calls')
       \/ ~(/\ \E i \in Listeners : lpc[i].pc = "read_woken"
            /\ \A j \in Listeners : lpc[j].pc # "read")]_vars

\* C30: whenever set_shortcuts() writes the toggle and push-to-talk
\* configurations on the application's save path, no listener thread is
\* alive.
C30_NoWriteWhileAlive ==
    [][(hk.prev # "set" /\ hk'.prev = "set") => ListenerAlive = {}]_vars

\* The held-key set is empty, both sequential states unarmed, both latches
\* false.
TransientClear ==
    /\ current_keys = {}
    /\ ~toggle_seq.armed
    /\ ~ptt_seq.armed
    /\ ~toggle_combo_active
    /\ ~ptt_combo_active

\* C23: immediately after set_shortcuts() returns and immediately after
\* stop() returns the held-key set is empty, both sequential states are
\* unarmed and both latches are false.
C23_ResetOnReconfigureAndStop ==
    [][(\/ hk.prev # "set" /\ hk'.prev = "set"
        \/ hk.pc = "join" /\ hk'.pc # "join") => TransientClear']_vars

\* C40: at most one listener thread processes key events at any time: no
\* two listener threads are alive and inside the dispatch of a batch of
\* events, working on the same held set, armed states and latches.
C40_OneDispatchingListener ==
    \A i, j \in Reading : i = j

(***************************************************************************)
(* Claims about an old session's thread beside a newer session, and about  *)
(* the caller beside a finishing thread (SpecSess)                         *)
(***************************************************************************)

\* C33: once start() has launched a newer session that is alive, no step
\* of an older session's thread (its finally block, its late assignment
\* of _ws) changes _running, _ws, _loop or _thread.
C33_OldTeardownLeavesNewSession ==
    [][\A i \in Sessions :
          \/ UNCHANGED <<running, ws, loop, thread>>
          \/ tpc'[i] = tpc[i]
          \/ tpc[i] \notin {"connecting", "fin_running", "fin_ws", "fin_loop",
                             "fin_thread"}
          \/ ~(\E j \in Sessions : j > i /\ Alive(j))]_vars

\* C34: start() and stop(blocking=True) do not raise when the background
\* thread sets _thread to None between the caller's `is not None` test and
\* its next use of _thread (is_alive, join).
C34_CallerSurvivesThreadEnd ==
    [][gui.pc \in {"start_alive", "start_join", "stop_join"}
          => ~(Raised("start raises", calls') \/ Raised("stop raises", calls'))]_vars

(***************************************************************************)
(* Claims about a push-to-talk hold beside stop() (SpecSave)               *)
(***************************************************************************)

\* C38: a push-to-talk hold is always ended: whenever the hold's latch is
\* cleared, by a key-up or by the engine being stopped or restarted for a
\* settings save, on_ptt_release is delivered in that step.
C38_HoldAlwaysEnded ==
    [][Raised("on_ptt_release", calls') \/ ~(ptt_combo_active /\ ~ptt_combo_active')]_vars

(***************************************************************************)
(* Claims about recordings started and stopped by the application (SpecApp)*)
(***************************************************************************)

\* C32: send_audio, finalize and send_eof never raise to their caller,
\* whatever the session's thread does to _ws and _loop between the
\* caller's check and its use of them: the late call is dropped.
C32_SendsNeverRaise ==
    [][~(Raised("send_audio raises", calls') \/ Raised("finalize raises", calls')
           \/ Raised("send_eof raises", calls'))]_vars

\* A block passed send_audio's check, the session's thread then tore the
\* session down, and the block has just been dropped.
C32_Witness ==
    /\ Raised("send_audio dropped", calls)
    /\ aud.pc = "idle"
    /\ ws = None

\* C35: the delayed close scheduled by one stop of recording never closes
\* the session of a later recording: the step of a grace timer that turns
\* _running off is never taken while the application is recording.
C35_DelayedCloseSparesLaterRecording ==
    [][~recording \/ ~(timers' < timers /\ running /\ ~running')]_vars

\* C36: on each connection the end-of-stream marker is the last frame the
\* client sends: no audio frame, and no other frame, follows it.
C36_EofIsLast ==
    \A i \in Sessions : \A k \in 1..Len(wire[i]) :
        wire[i][k] = "eof" => k = Len(wire[i])

\* C39: the recording state follows the session: a toggle or push-to-talk
\* press arriving while no session is running and no grace timer is
\* pending starts a new recording.
C39_ToggleStartsWhenNoSession ==
    [][(gui.pc = "idle" /\ ~running /\ timers = 0 /\ timers' = 0
           /\ gui'.pc \in {"app_start", "app_finalize"})
          => gui'.pc = "app_start"]_vars

(***************************************************************************)
(* Claims about the held set and the keyboard (SpecPhys)                   *)
(***************************************************************************)

\* C37: the held-key set tracks the keyboard under modifier folding:
\* releasing one variant of a modifier while another variant is still
\* physically down does not remove the canonical modifier from the held
\* set.
C37_HeldTracksPhysical ==
    [][\A raw \in phys' :
          (phys' # phys /\ phys' \subseteq phys
              /\ backend_normalize_key(raw) \in current_keys)
             => backend_normalize_key(raw) \in current_keys']_vars

(***************************************************************************)
(* Claims about the erase count across a restart (SpecRestart)             *)
(***************************************************************************)

\* C31: each emitted erase count equals the length of the non-final text
\* of the instruction the same session emitted before it, 0 for the
\* session's first instruction.
C31_EraseCountIsOwnProvisionalTail ==
    [][\A i \in Sessions : \A msg \in Responses(RestartBatches) :
          (Raised("on_text", calls') /\ Recv(i, msg))
             => text_q'[Len(text_q')].backspace_count = tok.prev_nonfinal[i]]_vars

====
